---- MODULE Spec2Model ----
(***************************************************************************)
(* A model of the uHDA controller core: src/src/controller.cpp (controller *)
(* life cycle, CORB/RIRB verb queue, interrupt dispatch) and               *)
(* src/src/uhda.cpp (public entry points, stream start/stop).              *)
(*                                                                         *)
(* Registers are modelled by their fields (the bit layout lives in         *)
(* spec.hpp, which is not part of the sources at hand): a register is a    *)
(* record of field values, a load reads the record, a store replaces it.   *)
(* The hardware and the host kernel are the environment: their answers are *)
(* inputs drawn from small sets.                                           *)
(***************************************************************************)
EXTENDS Integers, Sequences, FiniteSets, TLC

VARIABLES
    \* ---- controller registers and hardware
    regs,        \* the controller's register space (space.load / space.store)
    gctl_req,    \* hardware: the CRST value last stored to GCTL
    hw_dead,     \* hardware: TRUE when it never completes a reset request
    \* ---- UhdaController fields
    corb_size,   \* UhdaController::corb_size
    rirb_size,   \* UhdaController::rirb_size
    in_stream_count,
    out_stream_count,
    codecs,      \* UhdaController::codecs, the codec ids in list order
    fields,      \* the pointer / handle fields that are non-null
    \* ---- host kernel resources
    irq,         \* state of the handle in UhdaController::irq
    irq_deallocs,\* calls of uhda_kernel_pci_deallocate_irq so far
    held,        \* kernel resources acquired and not yet released
    misuse,      \* kernel operations issued on a resource that is not held
    \* ---- control
    pc,          \* position of the driver in the operation in progress
    stack,       \* return positions of the calls in progress
    status,      \* the status the last returned call produced
    poll_i,      \* the counter i of the poll loop in progress
    calls,       \* API calls made after uhda_init
    \* ---- ghost
    wlog,        \* the register stores of the call in progress, in order
    regs0,       \* the register space when the call in progress began
    cur_op,      \* the API call in progress or last finished
    last_op,     \* the API call finished before cur_op, with its status
    fail,        \* the step of init() that failed, with the status it reported
    enum,        \* what the codec enumeration of the last resume() did
    \* ---- verb queue
    corb,        \* the CORB page: slot -> verb descriptor, for the slots written
    rirb,        \* the RIRB page: slot -> response descriptor, likewise
    corbrp,      \* hardware: the CORB read pointer
    index,       \* the index submit_verb returned and wait_for_verb is given
    res,         \* the response wait_for_verb handed back
    sent,        \* ghost: the verbs submitted, with their indices, in order
    answered,    \* ghost: the responses the hardware wrote, in order
    loads,       \* ghost: register loads made by the wait loop in progress
    corb_hit,    \* ghost: the first loop of wait_for_verb saw CORBWP = index
    \* ---- one stream
    stream,      \* the UhdaStream object and the RUN bit of its CTL0 register
    stream_log,  \* ghost: what the last stream call did, in program order
    stream_calls,\* ghost: stream calls made so far
    irq_pc,      \* position of the interrupt handler of the stream
    \* ---- the path functions of uhda.cpp
    api_call,    \* the call being made, with its arguments
    api_ret      \* what the call returned and did

hwVars   == <<regs, gctl_req, hw_dead>>
objVars  == <<corb_size, rirb_size, in_stream_count, out_stream_count, codecs, fields>>
kernVars == <<irq, irq_deallocs, held, misuse>>
flowVars == <<pc, stack, status, poll_i, calls>>
ghostVars == <<wlog, regs0, cur_op, last_op, fail, enum>>

ctlVars == <<hwVars, objVars, kernVars, flowVars, ghostVars>>

\* The controller but for its registers and its control state.
ctlRest == <<gctl_req, hw_dead, objVars, kernVars, stack, calls, ghostVars>>

verbVars == <<corb, rirb, corbrp, index, res, sent, answered, loads, corb_hit>>

streamVars == <<stream, stream_log, stream_calls, irq_pc>>

apiVars == <<api_call, api_ret>>

vars == <<ctlVars, verbVars, streamVars, apiVars>>

-----------------------------------------------------------------------------
(* Status codes (uhda/types.h, used throughout both files).                *)

SUCCESS     == "SUCCESS"
TIMEOUT     == "TIMEOUT"
NO_MEMORY   == "NO_MEMORY"
UNSUPPORTED == "UNSUPPORTED"

-----------------------------------------------------------------------------
(* Bit helpers.                                                            *)

\* value & (1 << bit) != 0
BitSet(value, bit) == (value \div (2 ^ bit)) % 2 = 1

-----------------------------------------------------------------------------
(* Ring size negotiation: controller.cpp, resume(), lines 304-346.         *)

\* The values the SZCAP field of CORBSIZE / RIRBSIZE can read as, and the
\* values of the SIZE field.
SzCapValues == 0 .. 15
SizeCodes   == 0 .. 3

\* chosen_corb_size / chosen_rirb_size: lines 307-318 and 329-340.
ChosenWrong(cap) ==
    IF BitSet(cap, 1) THEN 1
    ELSE IF BitSet(cap, 2) THEN 2
    ELSE 0

chosen_size(cap) ==
    IF BitSet(cap, 2) THEN 2
    ELSE IF BitSet(cap, 1) THEN 1
    ELSE 0

\* corb_size / rirb_size, set in the same branches.
ring_entries(cap) ==
    IF BitSet(cap, 2) THEN 256
    ELSE IF BitSet(cap, 1) THEN 16
    ELSE 2

\* The guard of the write-back: cap != chosen << 1 (lines 320 and 342).
SizeStoreAlways(cap) == TRUE

size_store_needed(cap) == cap # chosen_size(cap) * 2

\* The register value stored: SIZE replaced by the chosen code, the other
\* fields as loaded (lines 321-323 and 343-345).
size_reg_stored(reg) == [reg EXCEPT !.size = chosen_size(reg.cap)]

\* One store: the register, the stream block for a stream register (-1 for
\* the others) and the value stored.
St(name, val) == [reg |-> name, idx |-> -1, val |-> val]
StStream(name, s, val) == [reg |-> name, idx |-> s, val |-> val]

\* The stores of the negotiation, in program order.
NegotiationStores(r) ==
    (IF size_store_needed(r.CORBSIZE.cap)
        THEN <<St("CORBSIZE", size_reg_stored(r.CORBSIZE))>>
        ELSE <<>>)
    \o
    (IF size_store_needed(r.RIRBSIZE.cap)
        THEN <<St("RIRBSIZE", size_reg_stored(r.RIRBSIZE))>>
        ELSE <<>>)

\* The register space after the stores of a log have been made.
RECURSIVE ApplyStores(_, _)
ApplyStores(r, log) ==
    IF log = <<>> THEN r
    ELSE LET e == Head(log)
         IN  ApplyStores(IF e.idx = -1
                           THEN [r EXCEPT ![e.reg] = e.val]
                           ELSE [r EXCEPT ![e.reg][e.idx] = e.val],
                         Tail(log))

-----------------------------------------------------------------------------
(* The register space.                                                     *)

\* One hardware configuration: what the read-only fields report and what
\* the SIZE fields hold before the driver touches them.
HwConfig(corbcap, corbsz, rirbcap, rirbsz, ok64, iss, oss, statests) ==
    [corbcap |-> corbcap, corbsz |-> corbsz, rirbcap |-> rirbcap,
     rirbsz |-> rirbsz, ok64 |-> ok64, iss |-> iss, oss |-> oss,
     statests |-> statests]

\* The registers of a controller that sits in reset (crst = FALSE) or was
\* left running by firmware (crst = TRUE).
PowerOnRegs(cfg, crst) ==
    [GCTL      |-> [crst |-> crst],
     GCAP      |-> [ok64 |-> cfg.ok64, iss |-> cfg.iss, oss |-> cfg.oss],
     CORBSIZE  |-> [size |-> cfg.corbsz, cap |-> cfg.corbcap],
     RIRBSIZE  |-> [size |-> cfg.rirbsz, cap |-> cfg.rirbcap],
     CORBCTL   |-> [run |-> crst],
     RIRBCTL   |-> [dmaen |-> crst],
     CORBWP    |-> [wp |-> 0],
     RIRBWP    |-> [wp |-> 0],
     CORBLBASE |-> "none", CORBUBASE |-> "none",
     RIRBLBASE |-> "none", RIRBUBASE |-> "none",
     RINTCNT   |-> 0,
     DPLBASE   |-> [base |-> "none", dpbe |-> FALSE],
     DPUBASE   |-> "none",
     INTCTL    |-> [gie |-> FALSE, sie |-> 0],
     STATESTS  |-> cfg.statests,
     SDCTL0    |-> [s \in 0 .. (cfg.iss + cfg.oss - 1) |-> [run |-> crst]]]

\* The state of a controller object right after its construction
\* (uhda.cpp line 39), over registers r, with the driver at position p.
CtlInit(r, dead, p) ==
    /\ regs = r
    /\ gctl_req = r.GCTL.crst
    /\ hw_dead = dead
    /\ corb_size = 0
    /\ rirb_size = 0
    /\ in_stream_count = 0
    /\ out_stream_count = 0
    /\ codecs = <<>>
    /\ fields = {}
    /\ irq = "none"
    /\ irq_deallocs = 0
    /\ held = {}
    /\ misuse = {}
    /\ pc = p
    /\ stack = <<>>
    /\ status = SUCCESS
    /\ poll_i = 0
    /\ calls = 0
    /\ wlog = <<>>
    /\ regs0 = r
    /\ cur_op = "none"
    /\ last_op = [op |-> "none", status |-> SUCCESS]
    /\ fail = [step |-> "none", status |-> SUCCESS, irq_allocated |-> FALSE]
    /\ enum = [ran |-> FALSE]

-----------------------------------------------------------------------------
(* The negotiation on its own, over every value of the two size registers. *)

\* The verb queue before any verb was submitted.
VerbInit ==
    /\ corb = <<>>
    /\ rirb = <<>>
    /\ corbrp = 0
    /\ index = 0
    /\ res = [unwritten |-> TRUE]
    /\ sent = <<>>
    /\ answered = <<>>
    /\ loads = 0
    /\ corb_hit = FALSE

\* A stream slot that was never set up.
StreamInit ==
    /\ stream = [output |-> TRUE, set_up |-> FALSE, run |-> FALSE,
                 ring_capacity |-> 0,
                 ring_buffer_size |-> [hi |-> 0, lo |-> 0],
                 ring_buffer_read_pos |-> [hi |-> 0, lo |-> 0],
                 current_pos |-> 0,
                 buffer_pages |-> <<>>]
    /\ stream_log = [call |-> "none"]
    /\ stream_calls = 0
    /\ irq_pc = "idle"

\* No path function was called.
ApiInit ==
    /\ api_call = [fn |-> "none"]
    /\ api_ret = [fn |-> "none"]

InitNegRegs ==
    \E ccap \in SzCapValues, csz \in SizeCodes,
       rcap \in SzCapValues, rsz \in SizeCodes :
        CtlInit(PowerOnRegs(HwConfig(ccap, csz, rcap, rsz, TRUE, 1, 1, 1), TRUE),
                FALSE, "negotiate")

InitNeg == InitNegRegs /\ VerbInit /\ StreamInit /\ ApiInit

\* controller.cpp lines 304-346.
Negotiate ==
    /\ pc = "negotiate"
    /\ corb_size' = ring_entries(regs.CORBSIZE.cap)
    /\ rirb_size' = ring_entries(regs.RIRBSIZE.cap)
    /\ wlog' = NegotiationStores(regs)
    /\ regs' = ApplyStores(regs, NegotiationStores(regs))
    /\ pc' = "negotiated"
    /\ UNCHANGED <<verbVars, streamVars, apiVars, gctl_req, hw_dead, in_stream_count, out_stream_count, codecs,
                   fields, kernVars, stack, status, poll_i, calls,
                   regs0, cur_op, last_op, fail, enum>>

NextNeg == Negotiate

SpecNeg == InitNeg /\ [][NextNeg]_vars

(***************************************************************************)
(* The stores a log made to one register.                                  *)
(***************************************************************************)
StoresTo(log, name) == SelectSeq(log, LAMBDA e : e.reg = name)

\* The entry counts a size code stands for.
EntriesOfCode(code) == CASE code = 0 -> 2 [] code = 1 -> 16 [] code = 2 -> 256
                         [] OTHER -> 0

\* The capability bit of an entry count.
CapBitOf(n) == CASE n = 2 -> 0 [] n = 16 -> 1 [] n = 256 -> 2

\* The largest entry count whose capability bit is set, 2 when none is.
LargestSupported(cap) ==
    LET sup == {n \in {2, 16, 256} : BitSet(cap, CapBitOf(n))} \cup {2}
    IN  CHOOSE n \in sup : \A m \in sup : m <= n

\* C3: in resume(), for the CORB and for the RIRB and for every value of the
\* capability field, the ring size chosen (corb_size / rirb_size, and the
\* size code stored when one is stored) is the largest supported one:
\* 256 entries if the 256-entry bit is set, otherwise 16 if the 16-entry bit
\* is set, otherwise 2.
C3_LargestSizeChosen ==
    pc = "negotiated" =>
        /\ corb_size = LargestSupported(regs0.CORBSIZE.cap)
        /\ rirb_size = LargestSupported(regs0.RIRBSIZE.cap)
        /\ \A k \in 1 .. Len(wlog) :
              /\ wlog[k].reg = "CORBSIZE" =>
                    EntriesOfCode(wlog[k].val.size) = corb_size
              /\ wlog[k].reg = "RIRBSIZE" =>
                    EntriesOfCode(wlog[k].val.size) = rirb_size

\* C3 witness: a negotiation that chose 16 entries for the CORB although the
\* 2-entry bit is set as well, and 256 for the RIRB, and stored both codes.
C3_Witness ==
    /\ pc = "negotiated"
    /\ regs0.CORBSIZE.cap = 3 /\ corb_size = 16
    /\ regs0.RIRBSIZE.cap = 7 /\ rirb_size = 256
    /\ Len(wlog) = 2

\* C4 as stated: the size register is not written when the size programmed
\* in it already equals the chosen size, and is written with the chosen size
\* whenever the programmed size differs.
C4_AsStated ==
    pc = "negotiated" =>
        /\ (EntriesOfCode(regs0.CORBSIZE.size) = corb_size)
               <=> (StoresTo(wlog, "CORBSIZE") = <<>>)
        /\ (EntriesOfCode(regs0.RIRBSIZE.size) = rirb_size)
               <=> (StoresTo(wlog, "RIRBSIZE") = <<>>)

\* The stores C4 (amended) expects for one size register.
ExpectedSizeStores(name, reg) ==
    LET code == CHOOSE c \in 0 .. 2 : EntriesOfCode(c) = LargestSupported(reg.cap)
    IN  IF reg.cap \in {0, 2, 4}
        THEN <<>>
        ELSE <<[reg |-> name, idx |-> -1, val |-> [size |-> code, cap |-> reg.cap]]>>

\* C4 (amended): the size register is left unwritten exactly when the
\* capability field reads as 256-only (4), as 16-only (2) or as 0, whatever
\* size is programmed; otherwise it is written once, with the chosen size
\* code and the other fields as read.
C4_StoreDecidedByCapability ==
    pc = "negotiated" =>
        /\ StoresTo(wlog, "CORBSIZE") = ExpectedSizeStores("CORBSIZE", regs0.CORBSIZE)
        /\ StoresTo(wlog, "RIRBSIZE") = ExpectedSizeStores("RIRBSIZE", regs0.RIRBSIZE)
        /\ regs = ApplyStores(regs0, wlog)

\* C4 witness: both cases the statement gets wrong: the CORB register is
\* left alone although 2 entries are programmed and 256 chosen, and the RIRB
\* register is rewritten although the chosen size is already programmed.
C4_Witness ==
    /\ pc = "negotiated"
    /\ regs0.CORBSIZE = [size |-> 0, cap |-> 4]
    /\ StoresTo(wlog, "CORBSIZE") = <<>>
    /\ regs0.RIRBSIZE = [size |-> 2, cap |-> 6]
    /\ StoresTo(wlog, "RIRBSIZE") # <<>>

-----------------------------------------------------------------------------
(* Host kernel resources (uhda/kernel_api.h): what init() acquires and the *)
(* destructor releases.                                                    *)

\* Slots of the in_streams and of the out_streams array (controller.hpp).
StreamSlots == 2

Res(kind, n) == [kind |-> kind, n |-> n]

IRQ == Res("irq", 0)

\* The statuses a failing kernel call reports.
KernelErrors == {NO_MEMORY, UNSUPPORTED}

\* An operation on the IRQ handle in UhdaController::irq: what it adds to
\* the misuses when the handle is not an allocated one.
IrqOp(op, handle) ==
    IF handle = "allocated" THEN {} ELSE {[op |-> op, on |-> IRQ, state |-> handle]}

\* The steps of init() up to the call of resume(), in program order
\* (controller.cpp lines 105-195): the resource a step acquires (its field
\* becomes non-null with it) and where its failure leads: "return" is a
\* plain return of the status, "fail" the label that deallocates the IRQ.
InitSteps ==
    <<[name |-> "pci_read_cmd",  res |-> {}, on_fail |-> "return"],
      [name |-> "pci_write_cmd", res |-> {}, on_fail |-> "return"],
      [name |-> "map_bar",       res |-> {Res("bar", 0)}, on_fail |-> "return"],
      [name |-> "pci_read_vendor", res |-> {}, on_fail |-> "return"],
      [name |-> "allocate_irq",  res |-> {IRQ}, on_fail |-> "return"],
      [name |-> "alloc_corb_phys", res |-> {Res("corb_phys", 0)}, on_fail |-> "fail"],
      [name |-> "alloc_rirb_phys", res |-> {Res("rirb_phys", 0)}, on_fail |-> "fail"],
      [name |-> "alloc_dpl_phys",  res |-> {Res("dpl_phys", 0)}, on_fail |-> "fail"],
      [name |-> "map_corb",      res |-> {Res("corb", 0)}, on_fail |-> "fail"],
      [name |-> "map_rirb",      res |-> {Res("rirb", 0)}, on_fail |-> "fail"],
      [name |-> "map_dma_pos",   res |-> {Res("dma_pos", 0)}, on_fail |-> "fail"],
      [name |-> "create_lock",   res |-> {Res("lock", 0)}, on_fail |-> "fail"]>>
    \o [s \in 1 .. StreamSlots |->
          [name |-> "create_in_lock", res |-> {Res("in_lock", s - 1)}, on_fail |-> "fail"]]
    \o [s \in 1 .. StreamSlots |->
          [name |-> "create_out_lock", res |-> {Res("out_lock", s - 1)}, on_fail |-> "fail"]]

\* map_bar(), controller.cpp lines 500-525: io[i + 1] tells whether BAR i is
\* flagged I/O space. The first BAR that is not gets mapped; an I/O BAR at
\* index 5 ends the scan with UNSUPPORTED.
BarCount == 6

RECURSIVE map_bar(_, _)
map_bar(io, i) ==
    IF io[i + 1]
    THEN IF i = BarCount - 1 THEN [status |-> UNSUPPORTED, bar |-> i]
                             ELSE map_bar(io, i + 1)
    ELSE [status |-> SUCCESS, bar |-> i]

\* The BAR layouts init() is run on.
BarLayouts ==
    {<<FALSE, FALSE, FALSE, FALSE, FALSE, FALSE>>,
     <<TRUE, TRUE, FALSE, FALSE, FALSE, FALSE>>,
     <<TRUE, TRUE, TRUE, TRUE, TRUE, TRUE>>}

\* The label fail: of init(), lines 204-206, on kernel state k.
InitFailKeepsIrq(k) == k

init_fail(k) ==
    [k EXCEPT !.misuse = @ \cup IrqOp("pci_deallocate_irq", k.irq),
              !.irq = "deallocated",
              !.irq_deallocs = @ + 1,
              !.held = @ \ {IRQ}]

\* init() from step n on: failAt is the step whose kernel call fails (0: none
\* does) and err the status it reports. Yields the kernel state, the fields
\* set, the status and, when a step failed, which one.
RECURSIVE init_from(_, _, _, _, _)
init_from(n, k, failAt, err, io) ==
    IF n > Len(InitSteps)
    THEN [k |-> k, status |-> SUCCESS,
          fail |-> [step |-> "none", status |-> SUCCESS, irq_allocated |-> FALSE]]
    ELSE
        LET step == InitSteps[n]
            st == IF n = failAt THEN err
                  ELSE IF step.name = "map_bar" THEN map_bar(io, 0).status
                  ELSE SUCCESS
        IN  IF st # SUCCESS
            THEN [k |-> IF step.on_fail = "fail" THEN init_fail(k) ELSE k,
                  status |-> st,
                  fail |-> [step |-> step.name, status |-> st,
                            irq_allocated |-> k.irq = "allocated"]]
            ELSE init_from(n + 1,
                           [k EXCEPT !.held = @ \cup step.res,
                                     !.fields = @ \cup (step.res \ {IRQ}),
                                     !.irq = IF IRQ \in step.res THEN "allocated" ELSE @],
                           failAt, err, io)

\* ~UhdaController(), lines 33-80, on kernel state k: the IRQ is disabled
\* unconditionally, every other resource is released when its field is set.
destructor(k) ==
    [k EXCEPT !.misuse = @ \cup IrqOp("pci_enable_irq", k.irq)
                           \cup {[op |-> "release", on |-> r, state |-> "not held"] :
                                 r \in k.fields \ k.held},
              !.held = @ \ k.fields,
              !.fields = {}]

\* The kernel state as one record, and back.
KernState == [irq |-> irq, irq_deallocs |-> irq_deallocs, held |-> held,
              misuse |-> misuse, fields |-> fields]

SetKernState(k) ==
    /\ irq' = k.irq
    /\ irq_deallocs' = k.irq_deallocs
    /\ held' = k.held
    /\ misuse' = k.misuse
    /\ fields' = k.fields

-----------------------------------------------------------------------------
(* The controller life cycle: uhda_init, suspend, resume, uhda_destroy.    *)

\* The iteration count every hardware wait loop gives up at
\* (controller.cpp lines 251, 286, 459, 469).
PollCeiling == 5 * 2000

\* API calls made on a controller after uhda_init.
MaxCalls == 2

\* A return from the call in progress with status st.
Return(st) ==
    /\ pc' = Head(stack)
    /\ stack' = Tail(stack)
    /\ status' = st

\* The register space after the stores of a log. A store to GCTL is taken by
\* the hardware as a request: what GCTL reads as changes when the hardware
\* has acted on it.
RegsAfter(r, log) ==
    ApplyStores(r, SelectSeq(log, LAMBDA e : e.reg # "GCTL"))

\* uhda_init(), uhda.cpp lines 33-40, with init(), controller.cpp lines
\* 105-197, up to its call of resume() or its return on a failure. The
\* vendor id only selects the IRQ hint passed to the kernel (lines 122-131).
UhdaInit ==
    /\ pc = "start"
    /\ \E malloc_ok \in BOOLEAN :
         IF ~malloc_ok
         THEN /\ pc' = "init_failed"
              /\ status' = NO_MEMORY
              /\ UNCHANGED <<stack, kernVars, fields, fail, cur_op>>
         ELSE \E failAt \in 0 .. Len(InitSteps), err \in KernelErrors, io \in BarLayouts :
                LET r == init_from(1, KernState, failAt, err, io)
                IN  /\ SetKernState(r.k)
                    /\ fail' = r.fail
                    /\ status' = r.status
                    /\ cur_op' = "init"
                    /\ IF r.status = SUCCESS
                       THEN pc' = "resume" /\ stack' = <<"init_after_resume">>
                       ELSE pc' = "init_returned" /\ stack' = <<>>
    /\ UNCHANGED <<verbVars, streamVars, apiVars, hwVars, corb_size, rirb_size, in_stream_count, out_stream_count,
                   codecs, poll_i, calls, wlog, regs0, last_op, enum>>

\* resume(), lines 268-277: pci_setup() and the call of suspend().
ResumeEnter ==
    /\ pc = "resume"
    /\ \E pci_status \in {SUCCESS} \cup KernelErrors :
         IF pci_status # SUCCESS
         THEN Return(pci_status)
         ELSE /\ pc' = "suspend"
              /\ stack' = <<"resume_after_suspend">> \o stack
              /\ UNCHANGED status
    /\ enum' = [ran |-> FALSE]
    /\ UNCHANGED <<verbVars, streamVars, apiVars, hwVars, objVars, kernVars, poll_i, calls, wlog, regs0, cur_op,
                   last_op, fail>>

\* The guard of suspend()'s body, line 219: the controller is out of reset.
SuspendAlways(gctl) == TRUE

suspend_needed(gctl) == gctl.crst

\* The stores of suspend(), lines 220-248, in program order: CORB and RIRB
\* DMA off, the run bit of every stream off, CRST cleared.
suspend_stores(r) ==
    LET iss == r.GCAP.iss
        oss == r.GCAP.oss
    IN  <<St("CORBCTL", [r.CORBCTL EXCEPT !.run = FALSE]),
          St("RIRBCTL", [r.RIRBCTL EXCEPT !.dmaen = FALSE])>>
        \o [i \in 1 .. iss |->
              StStream("SDCTL0", i - 1, [r.SDCTL0[i - 1] EXCEPT !.run = FALSE])]
        \o [i \in 1 .. oss |->
              StStream("SDCTL0", iss + i - 1, [r.SDCTL0[iss + i - 1] EXCEPT !.run = FALSE])]
        \o <<St("GCTL", [r.GCTL EXCEPT !.crst = FALSE])>>

\* suspend(), lines 215-248: up to the wait for the reset to be entered.
SuspendEnter ==
    /\ pc = "suspend"
    /\ misuse' = misuse \cup IrqOp("pci_enable_irq", irq)
    /\ IF suspend_needed(regs.GCTL)
       THEN /\ wlog' = wlog \o suspend_stores(regs)
            /\ regs' = RegsAfter(regs, suspend_stores(regs))
            /\ gctl_req' = FALSE
            /\ poll_i' = 0
            /\ pc' = "suspend_poll"
            /\ UNCHANGED <<stack, status>>
       ELSE /\ Return(SUCCESS)
            /\ UNCHANGED <<regs, gctl_req, wlog, poll_i>>
    /\ UNCHANGED <<verbVars, streamVars, apiVars, hw_dead, objVars, irq, irq_deallocs, held, calls, regs0, cur_op,
                   last_op, fail, enum>>

\* One pass of suspend()'s wait loop, lines 250-262.
SuspendPoll ==
    /\ pc = "suspend_poll"
    /\ IF poll_i = PollCeiling
       THEN /\ misuse' = misuse \cup IrqOp("pci_enable_irq", irq)
            /\ Return(TIMEOUT)
            /\ UNCHANGED poll_i
       ELSE IF ~regs.GCTL.crst
       THEN /\ Return(SUCCESS)
            /\ UNCHANGED <<misuse, poll_i>>
       ELSE /\ poll_i' = poll_i + 1
            /\ UNCHANGED <<misuse, pc, stack, status>>
    /\ UNCHANGED <<verbVars, streamVars, apiVars, hwVars, objVars, irq, irq_deallocs, held, calls, ghostVars>>

\* resume(), lines 274-283: after suspend() returned.
ResumeAfterSuspend ==
    /\ pc = "resume_after_suspend"
    /\ IF status # SUCCESS
       THEN /\ Return(status)
            /\ UNCHANGED <<misuse, wlog, gctl_req, poll_i>>
       ELSE /\ misuse' = misuse \cup IrqOp("pci_enable_irq", irq)
            /\ wlog' = Append(wlog, St("GCTL", [regs.GCTL EXCEPT !.crst = TRUE]))
            /\ gctl_req' = TRUE
            /\ poll_i' = 0
            /\ pc' = "resume_poll"
            /\ UNCHANGED <<stack, status>>
    /\ UNCHANGED <<verbVars, streamVars, apiVars, regs, hw_dead, objVars, irq, irq_deallocs, held, calls, regs0,
                   cur_op, last_op, fail, enum>>

\* One pass of resume()'s wait loop, lines 285-295.
ResumePoll ==
    /\ pc = "resume_poll"
    /\ IF poll_i = PollCeiling
       THEN /\ misuse' = misuse \cup IrqOp("pci_enable_irq", irq)
            /\ Return(TIMEOUT)
            /\ UNCHANGED poll_i
       ELSE IF regs.GCTL.crst
       THEN /\ pc' = "resume_configure"
            /\ UNCHANGED <<misuse, poll_i, stack, status>>
       ELSE /\ poll_i' = poll_i + 1
            /\ UNCHANGED <<misuse, pc, stack, status>>
    /\ UNCHANGED <<verbVars, streamVars, apiVars, hwVars, objVars, irq, irq_deallocs, held, calls, ghostVars>>

\* The hardware acts on the CRST value stored last. Entering reset stops the
\* DMA engines and clears the ring pointers and the interrupt enables.
HwReset ==
    /\ ~hw_dead
    /\ gctl_req # regs.GCTL.crst
    /\ regs' = IF gctl_req
               THEN [regs EXCEPT !.GCTL.crst = TRUE]
               ELSE [regs EXCEPT !.GCTL.crst = FALSE,
                                 !.CORBCTL.run = FALSE,
                                 !.RIRBCTL.dmaen = FALSE,
                                 !.CORBWP.wp = 0,
                                 !.RIRBWP.wp = 0,
                                 !.INTCTL = [gie |-> FALSE, sie |-> 0],
                                 !.SDCTL0 = [s \in DOMAIN regs.SDCTL0 |-> [run |-> FALSE]]]
    /\ UNCHANGED <<verbVars, streamVars, apiVars, gctl_req, hw_dead, objVars, kernVars, flowVars, ghostVars>>

\* a | b on naturals.
RECURSIVE BitOr(_, _)
BitOr(a, b) ==
    IF a = 0 THEN b
    ELSE IF b = 0 THEN a
    ELSE (IF a % 2 = 1 \/ b % 2 = 1 THEN 1 ELSE 0) + 2 * BitOr(a \div 2, b \div 2)

\* The stores of resume() after the reset was left, lines 304-391, in
\* program order, on the register space r.
configure_stores(r) ==
    LET neg == NegotiationStores(r)
        n   == r.GCAP.iss + r.GCAP.oss
    IN  neg \o
        <<St("CORBLBASE", "lo(corb_phys)"), St("CORBUBASE", "hi(corb_phys)"),
          St("RIRBLBASE", "lo(rirb_phys)"), St("RIRBUBASE", "hi(rirb_phys)"),
          St("CORBCTL", [r.CORBCTL EXCEPT !.run = TRUE]),
          St("RIRBCTL", [r.RIRBCTL EXCEPT !.dmaen = TRUE]),
          St("RINTCNT", (r.RINTCNT - (r.RINTCNT % 256)) + 255),
          St("DPLBASE", [base |-> "dpl_phys", dpbe |-> FALSE]),
          St("DPUBASE", "hi(dpl_phys)"),
          St("DPLBASE", [base |-> "dpl_phys", dpbe |-> TRUE]),
          St("INTCTL", [gie |-> TRUE, sie |-> BitOr(r.INTCTL.sie, 2 ^ n - 1)])>>

\* What one codec of the enumeration meets: its allocation fails, its init()
\* returns a status, or the push onto the codec list fails.
CodecOutcomes ==
    {[at |-> "malloc", status |-> NO_MEMORY],
     [at |-> "init", status |-> SUCCESS],
     [at |-> "init", status |-> TIMEOUT],
     [at |-> "init", status |-> UNSUPPORTED],
     [at |-> "init", status |-> NO_MEMORY],
     [at |-> "push", status |-> NO_MEMORY]}

\* Codec ids the enumeration looks at: i < 15, line 394.
CodecIdsWithBit15 == 15 + 1

CodecIds == 15

\* What the loop does with a codec whose init() returned st, lines 403-412:
\* "skip" destroys it and goes on, "stop" destroys it and returns st, "keep"
\* goes on to push it.
TimeoutIsFatal(st) ==
    IF st = SUCCESS THEN "keep" ELSE "stop"

after_codec_init(st) ==
    IF st = TIMEOUT THEN "skip"
    ELSE IF st # SUCCESS THEN "stop"
    ELSE "keep"

\* The codec enumeration of resume(), lines 393-420, from id i on: f gives
\* what the codec of each presence bit meets, e is the record of the loop so
\* far: the codec list, the codecs constructed (with the status of their
\* init), the codecs destroyed, the id the loop ended at and the status
\* returned.
RECURSIVE enumerate(_, _, _, _)
enumerate(i, statests, f, e) ==
    IF i >= CodecIds THEN [e EXCEPT !.status = SUCCESS, !.next = i]
    ELSE IF ~BitSet(statests, i) THEN enumerate(i + 1, statests, f, e)
    ELSE IF f[i].at = "malloc" THEN [e EXCEPT !.status = NO_MEMORY, !.next = i]
    ELSE
        LET st == IF f[i].at = "push" THEN SUCCESS ELSE f[i].status
            e1 == [e EXCEPT !.tried = Append(@, [id |-> i, status |-> st]),
                            !.next = i]
            what == after_codec_init(st)
        IN  IF what = "skip"
            THEN enumerate(i + 1, statests, f, [e1 EXCEPT !.destroyed = Append(@, i)])
            ELSE IF what = "stop"
            THEN [e1 EXCEPT !.destroyed = Append(@, i), !.status = st]
            ELSE IF f[i].at = "push"
            THEN [e1 EXCEPT !.status = NO_MEMORY]
            ELSE enumerate(i + 1, statests, f, [e1 EXCEPT !.codecs = Append(@, i)])

\* The ids whose presence bit is set, among the ids below n.
PresentIds(statests, n) == {i \in 0 .. n - 1 : BitSet(statests, i)}

\* resume(), lines 297-420: after the reset was left.
ResumeConfigure ==
    /\ pc = "resume_configure"
    /\ IF ~regs.GCAP.ok64
       THEN /\ misuse' = misuse \cup IrqOp("pci_enable_irq", irq)
            /\ Return(UNSUPPORTED)
            /\ UNCHANGED <<regs, corb_size, rirb_size, in_stream_count,
                           out_stream_count, codecs, wlog, enum>>
       ELSE \E f \in [PresentIds(regs.STATESTS, CodecIds) -> CodecOutcomes] :
              LET e == enumerate(0, regs.STATESTS, f,
                                 [codecs |-> codecs, tried |-> <<>>,
                                  destroyed |-> <<>>, next |-> 0,
                                  status |-> SUCCESS])
              IN  /\ corb_size' = ring_entries(regs.CORBSIZE.cap)
                  /\ rirb_size' = ring_entries(regs.RIRBSIZE.cap)
                  /\ wlog' = wlog \o configure_stores(regs)
                  /\ regs' = RegsAfter(regs, configure_stores(regs))
                  /\ in_stream_count' = regs.GCAP.iss
                  /\ out_stream_count' = regs.GCAP.oss
                  /\ codecs' = e.codecs
                  /\ enum' = [ran |-> TRUE, before |-> codecs, tried |-> e.tried,
                              destroyed |-> e.destroyed, next |-> e.next,
                              status |-> e.status]
                  /\ misuse' = misuse
                  /\ Return(e.status)
    /\ UNCHANGED <<verbVars, streamVars, apiVars, gctl_req, hw_dead, fields, irq, irq_deallocs, held, poll_i, calls,
                   regs0, cur_op, last_op, fail>>

\* init(), lines 197-206: after resume() returned.
InitAfterResume ==
    /\ pc = "init_after_resume"
    /\ pc' = "init_returned"
    /\ IF status # SUCCESS
       THEN /\ fail' = [step |-> "resume", status |-> status,
                        irq_allocated |-> irq = "allocated"]
            /\ SetKernState(init_fail(KernState))
       ELSE UNCHANGED <<fail, kernVars, fields>>
    /\ UNCHANGED <<verbVars, streamVars, apiVars, hwVars, corb_size, rirb_size, in_stream_count, out_stream_count,
                   codecs, stack, status, poll_i, calls, wlog, regs0, cur_op,
                   last_op, enum>>

\* uhda_init(), uhda.cpp lines 40-50: after init() returned.
UhdaInitReturn ==
    /\ pc = "init_returned"
    /\ IF status # SUCCESS
       THEN /\ SetKernState(destructor(KernState))
            /\ codecs' = <<>>
            /\ pc' = "init_failed"
       ELSE /\ pc' = "active"
            /\ UNCHANGED <<kernVars, fields, codecs>>
    /\ UNCHANGED <<verbVars, streamVars, apiVars, hwVars, corb_size, rirb_size, in_stream_count, out_stream_count,
                   stack, status, poll_i, calls, ghostVars>>

\* The start of an API call on an initialized controller.
Call(op, entry, ret) ==
    /\ pc = "active"
    /\ calls < MaxCalls
    /\ calls' = calls + 1
    /\ pc' = entry
    /\ stack' = <<ret>>
    /\ cur_op' = op
    /\ last_op' = [op |-> cur_op, status |-> status]
    /\ wlog' = <<>>
    /\ regs0' = regs
    /\ UNCHANGED <<verbVars, streamVars, apiVars, hwVars, objVars, kernVars, status, poll_i, fail, enum>>

\* uhda_suspend(), uhda.cpp lines 60-62.
UhdaSuspend == Call("suspend", "suspend", "active")

\* uhda_resume(), uhda.cpp lines 64-66.
UhdaResume == Call("resume", "resume", "active")

\* uhda_destroy(), uhda.cpp lines 53-54, into destroy(), controller.cpp
\* lines 209-210.
UhdaDestroy == Call("destroy", "suspend", "destroy_after_suspend")

\* destroy(), controller.cpp lines 211-212, then uhda_destroy(), uhda.cpp
\* lines 55-57: the IRQ is deallocated, the destructor runs.
DestroyAfterSuspend ==
    /\ pc = "destroy_after_suspend"
    /\ pc' = "destroyed"
    /\ SetKernState(destructor(LET k == KernState IN
           [k EXCEPT !.misuse = @ \cup IrqOp("pci_deallocate_irq", k.irq),
                     !.irq = "deallocated",
                     !.irq_deallocs = @ + 1,
                     !.held = @ \ {IRQ}]))
    /\ codecs' = <<>>
    /\ UNCHANGED <<verbVars, streamVars, apiVars, hwVars, corb_size, rirb_size, in_stream_count, out_stream_count,
                   stack, status, poll_i, calls, ghostVars>>

\* uhda_get_codecs(), uhda.cpp lines 68-71.
uhda_get_codecs == [codecs |-> codecs, codec_count |-> Len(codecs)]

\* uhda_get_output_streams(), uhda.cpp lines 73-76.
uhda_get_output_streams ==
    [streams |-> [k \in 1 .. out_stream_count |-> k - 1],
     stream_count |-> out_stream_count]

\* The hardware configurations the life cycle is run on: the first is the
\* controller with 256-entry rings, one input stream, one output stream and
\* codec 0 present.
HwConfigs ==
    {HwConfig(4, 2, 4, 2, TRUE, 1, 1, 1),
     HwConfig(6, 0, 2, 1, TRUE, 0, 2, 3),
     HwConfig(1, 0, 7, 0, TRUE, 2, 1, 2 ^ 14 + 1),
     HwConfig(7, 1, 5, 0, TRUE, 1, 2, 2 ^ 15 + 2),
     HwConfig(4, 2, 4, 2, TRUE, 1, 1, 0),
     HwConfig(4, 2, 4, 2, FALSE, 1, 1, 1)}

\* A controller that never completes a reset request is run in one
\* configuration.
InitCtrl ==
    /\ \E cfg \in HwConfigs, crst \in BOOLEAN, dead \in BOOLEAN :
          /\ dead => cfg = HwConfig(4, 2, 4, 2, TRUE, 1, 1, 1)
          /\ CtlInit(PowerOnRegs(cfg, crst), dead, "start")
    /\ VerbInit
    /\ StreamInit
    /\ ApiInit

\* The wait loops poll a register every 200 us: a pass is taken once the
\* hardware has acted on the request, or never will.
HwSettled == hw_dead \/ gctl_req = regs.GCTL.crst

NextCtrl ==
    \/ UhdaInit
    \/ ResumeEnter
    \/ SuspendEnter
    \/ (HwSettled /\ SuspendPoll)
    \/ ResumeAfterSuspend
    \/ (HwSettled /\ ResumePoll)
    \/ ResumeConfigure
    \/ InitAfterResume
    \/ UhdaInitReturn
    \/ UhdaSuspend
    \/ UhdaResume
    \/ UhdaDestroy
    \/ DestroyAfterSuspend
    \/ HwReset

SpecCtrl == InitCtrl /\ [][NextCtrl]_vars

-----------------------------------------------------------------------------
(* Properties of the life cycle.                                           *)

\* The elements of a sequence.
Range(q) == {q[k] : k \in DOMAIN q}

\* A finite set of numbers as the increasing sequence of its elements.
RECURSIVE Ascending(_)
Ascending(S) ==
    IF S = {} THEN <<>>
    ELSE LET m == CHOOSE x \in S : \A y \in S : x <= y
         IN  <<m>> \o Ascending(S \ {m})

\* C5: calling suspend() twice in a row returns SUCCESS both times, and the
\* second call changes no controller register: it makes no store, and every
\* register has the value the first call left.
C5_SecondSuspendChangesNothing ==
    (pc = "active" /\ cur_op = "suspend" /\ last_op.op = "suspend") =>
        /\ last_op.status = SUCCESS
        /\ status = SUCCESS
        /\ wlog = <<>>
        /\ regs = regs0

\* C5 witness: a second suspend() in a row has returned, on a controller the
\* first one has put into reset.
C5_Witness ==
    /\ pc = "active" /\ cur_op = "suspend" /\ last_op.op = "suspend"
    /\ calls = 2
    /\ ~regs.GCTL.crst /\ ~regs.CORBCTL.run

\* The codecs whose init() returned SUCCESS in the last enumeration.
InitSucceeded == {t.id : t \in {t \in Range(enum.tried) : t.status = SUCCESS}}

\* C6: after a successful init() the codec list holds exactly one Codec for
\* each set presence bit (ids 0..14) whose initialization succeeded, and
\* uhda_get_output_streams reports the output-stream count of the capability
\* register; with 256-entry CORB/RIRB capability, 1 input stream, 1 output
\* stream and only presence bit 0 set (its codec initialized), both rings
\* are 256 entries, there is exactly one Codec (id 0) and one output stream.
C6_EnumerationReflectsHardware ==
    (pc = "active" /\ cur_op = "init") =>
        /\ status = SUCCESS
        /\ uhda_get_codecs.codecs =
              Ascending({i \in 0 .. 14 : BitSet(regs.STATESTS, i)} \cap InitSucceeded)
        /\ uhda_get_codecs.codec_count =
              Cardinality({i \in 0 .. 14 : BitSet(regs.STATESTS, i)} \cap InitSucceeded)
        /\ uhda_get_output_streams.stream_count = regs.GCAP.oss
        /\ Len(uhda_get_output_streams.streams) = regs.GCAP.oss
        /\ ( /\ regs.CORBSIZE.cap = 4 /\ regs.RIRBSIZE.cap = 4
             /\ regs.GCAP.iss = 1 /\ regs.GCAP.oss = 1
             /\ regs.STATESTS = 1 /\ 0 \in InitSucceeded )
           => /\ corb_size = 256 /\ rirb_size = 256
              /\ uhda_get_codecs.codecs = <<0>>
              /\ uhda_get_output_streams.stream_count = 1

\* C6 witness: init() has succeeded on the controller of the scenario.
C6_Witness ==
    /\ pc = "active" /\ cur_op = "init"
    /\ regs.CORBSIZE.cap = 4 /\ regs.RIRBSIZE.cap = 4
    /\ regs.GCAP.iss = 1 /\ regs.GCAP.oss = 1 /\ regs.STATESTS = 1
    /\ codecs = <<0>> /\ corb_size = 256

\* C7: in the codec enumeration of resume(), a codec whose init() returns
\* TIMEOUT is destroyed and skipped and the enumeration goes on with the
\* remaining presence bits, so that resume() can still return SUCCESS; a
\* codec whose init() returns any other non-SUCCESS status makes resume()
\* return exactly that status, no further codec being constructed.
C7_TimeoutSkippedOtherErrorFatal ==
    enum.ran =>
        /\ \A k \in DOMAIN enum.tried :
              LET t == enum.tried[k] IN
              /\ t.status = TIMEOUT =>
                    /\ t.id \in Range(enum.destroyed)
                    /\ enum.next > t.id
                    /\ Len(codecs) >= Len(enum.before) =>
                          t.id \notin Range(SubSeq(codecs, Len(enum.before) + 1, Len(codecs)))
              /\ t.status \notin {SUCCESS, TIMEOUT} =>
                    /\ enum.status = t.status
                    /\ k = Len(enum.tried)
                    /\ enum.next = t.id
                    /\ t.id \in Range(enum.destroyed)
        \* every present codec below the end of the loop was constructed
        /\ {t.id : t \in Range(enum.tried)} \ {enum.next}
              = {i \in 0 .. 14 : BitSet(regs.STATESTS, i) /\ i < enum.next}
        \* the loop ran to its end unless a step failed
        /\ (\A t \in Range(enum.tried) : t.status \in {SUCCESS, TIMEOUT})
              /\ enum.status = SUCCESS => enum.next = CodecIds
        /\ pc = "init_after_resume" => status = enum.status

\* C7 witness: resume() returned SUCCESS although the first of two present
\* codecs timed out, and the second one is in the list.
C7_Witness ==
    /\ enum.ran /\ pc = "init_after_resume" /\ status = SUCCESS
    /\ enum.tried = <<[id |-> 0, status |-> TIMEOUT], [id |-> 1, status |-> SUCCESS]>>
    /\ codecs = <<1>>

\* C8: if a step of init() after the IRQ has been allocated fails, init()
\* deallocates the IRQ exactly once and returns the status the failing step
\* reported; if a step before the IRQ allocation fails (or the allocation
\* itself), no IRQ deallocation is performed.
C8_InitFailureDeallocatesIrqOnce ==
    (pc = "init_returned" /\ status # SUCCESS) =>
        /\ fail.step # "none"
        /\ status = fail.status
        /\ fail.irq_allocated => (irq_deallocs = 1 /\ irq = "deallocated" /\ IRQ \notin held)
        /\ ~fail.irq_allocated => (irq_deallocs = 0 /\ irq = "none")

\* C8 witness: init() has returned the status of a failed lock creation,
\* the IRQ deallocated.
C8_Witness ==
    /\ pc = "init_returned"
    /\ fail.step = "create_out_lock" /\ status = NO_MEMORY
    /\ irq_deallocs = 1

\* C9 as stated: the destructor that runs after a failed init() or after
\* destroy() performs each release or disable operation only on a resource
\* that was acquired and not yet released; no IRQ enable/disable operation
\* is issued on a handle never allocated or already deallocated.
C9_DestructorSafe ==
    pc \in {"init_failed", "destroyed"} => misuse = {}


-----------------------------------------------------------------------------
(* The verb queue: controller.cpp, submit_verb, submit_verb_long and       *)
(* wait_for_verb, lines 423-480.                                           *)

\* Verbs one run submits.
MaxVerbs == 3

\* uint8_t arithmetic.
U8(n) == n % 256

\* The CORB and RIRB pages as far as they were written.
Unwritten == [unwritten |-> TRUE]

ReadMem(mem, slot) == IF slot \in DOMAIN mem THEN mem[slot] ELSE Unwritten

WriteMem(mem, slot, v) ==
    [s \in DOMAIN mem \cup {slot} |-> IF s = slot THEN v ELSE mem[s]]

\* The descriptor submit_verb builds (lines 426-429): payload = cmd << 8 | data
\* with an 8-bit data, and the one submit_verb_long builds (lines 443-446):
\* payload = cmd << 16 | data with a 16-bit data.
verb_short(cid, nid, cmd, data) ==
    [cid |-> cid, nid |-> nid, payload |-> cmd * 256 + data]

verb_long(cid, nid, cmd, data) ==
    [cid |-> cid, nid |-> nid, payload |-> cmd * 65536 + data]

\* The arguments the callers pass: get-parameter verbs and one 16-bit verb.
ShortArgs ==
    {[cid |-> 0, nid |-> 0, cmd |-> 3840, data |-> 0],
     [cid |-> 0, nid |-> 1, cmd |-> 3840, data |-> 4]}

LongArgs == {[cid |-> 0, nid |-> 1, cmd |-> 2, data |-> 16401]}

\* uint8_t index = (CORBWP & WP) + 1: lines 424 and 441.
next_index(r) == U8(r.CORBWP.wp + 1)

\* Lines 430-437 and 447-454: the descriptor goes to corb[index], the index to
\* the WP field of CORBWP, and the index is returned; the caller passes it to
\* wait_for_verb, whose first loop starts at i = 0.
Submit(verb) ==
    /\ pc \in {"negotiated", "verb_done"}
    /\ status = SUCCESS
    /\ Len(sent) < MaxVerbs
    /\ index' = next_index(regs)
    /\ corb' = WriteMem(corb, next_index(regs), verb)
    /\ regs' = [regs EXCEPT !.CORBWP.wp = next_index(regs)]
    /\ sent' = Append(sent, [index |-> next_index(regs), verb |-> verb])
    /\ pc' = "wait_corb"
    /\ poll_i' = 0
    /\ loads' = 0
    /\ corb_hit' = FALSE
    /\ UNCHANGED <<ctlRest, streamVars, apiVars, status, rirb, corbrp, res, answered>>

submit_verb(cid, nid, cmd, data) == Submit(verb_short(cid, nid, cmd, data))

submit_verb_long(cid, nid, cmd, data) == Submit(verb_long(cid, nid, cmd, data))

\* The exit test of both loops of wait_for_verb: lines 459 and 469.
TimedOutEarly(i) == i = PollCeiling - 1

wait_timed_out(i) == i = PollCeiling

\* The first loop of wait_for_verb, one pass: lines 458-466.
WaitCorbPoll ==
    /\ pc = "wait_corb"
    /\ IF wait_timed_out(poll_i)
         THEN /\ status' = TIMEOUT
              /\ pc' = "verb_done"
              /\ UNCHANGED <<poll_i, loads, corb_hit>>
         ELSE IF regs.CORBWP.wp = index
         THEN /\ pc' = "wait_rirb"
              /\ poll_i' = 0
              /\ loads' = 0
              /\ corb_hit' = TRUE
              /\ UNCHANGED status
         ELSE /\ poll_i' = poll_i + 1
              /\ loads' = loads + 1
              /\ UNCHANGED <<pc, status, corb_hit>>
    /\ UNCHANGED <<regs, ctlRest, streamVars, apiVars, corb, rirb, corbrp, index, res,
                   sent, answered>>

\* The second loop, one pass, and the read of rirb[index]: lines 468-479.
WaitRirbPoll ==
    /\ pc = "wait_rirb"
    /\ IF wait_timed_out(poll_i)
         THEN /\ status' = TIMEOUT
              /\ pc' = "verb_done"
              /\ UNCHANGED <<poll_i, loads, res>>
         ELSE IF regs.RIRBWP.wp = index
         THEN /\ res' = ReadMem(rirb, index)
              /\ status' = SUCCESS
              /\ pc' = "verb_done"
              /\ loads' = loads + 1
              /\ UNCHANGED poll_i
         ELSE /\ poll_i' = poll_i + 1
              /\ loads' = loads + 1
              /\ UNCHANGED <<pc, status, res>>
    /\ UNCHANGED <<regs, ctlRest, streamVars, apiVars, corb, rirb, corbrp, index,
                   sent, answered, corb_hit>>

\* The response descriptor a codec gives to a verb.
response(verb) == [resp_to |-> verb]

\* The rings the hardware walks have the number of entries its size
\* registers are programmed to (lines 304-346); its pointers wrap there.
HwCorbEntries == EntriesOfCode(regs.CORBSIZE.size)

HwRirbEntries == EntriesOfCode(regs.RIRBSIZE.size)

\* The CORB DMA engine runs (line 349) and its read pointer is behind the
\* write pointer the driver stored (lines 436 and 453).
HwVerbsPending ==
    /\ regs.CORBCTL.run
    /\ corbrp # regs.CORBWP.wp % HwCorbEntries

\* The hardware fetches the next CORB entry and the codec's response goes to
\* the next RIRB slot; RIRBWP then names that slot (read by line 473).
HwProcess ==
    /\ pc \in {"wait_corb", "wait_rirb"}
    /\ HwVerbsPending
    /\ LET rp   == (corbrp + 1) % HwCorbEntries
           slot == (regs.RIRBWP.wp + 1) % HwRirbEntries
       IN  /\ corbrp' = rp
           /\ rirb' = WriteMem(rirb, slot, response(ReadMem(corb, rp)))
           /\ regs' = [regs EXCEPT !.RIRBWP.wp = slot]
           /\ answered' = Append(answered,
                                 [slot |-> slot, verb |-> ReadMem(corb, rp)])
    /\ UNCHANGED <<ctlRest, streamVars, apiVars, pc, status, poll_i, corb, index, res,
                   sent, loads, corb_hit>>

\* The SZCAP values of controllers with one ring size; their SIZE field
\* reads as that size.
VerbCaps == {1, 2, 4}

CodeOfCap(cap) == CASE cap = 1 -> 0 [] cap = 2 -> 1 [] cap = 4 -> 2

\* A controller that resume() has brought out of reset (lines 287-301) and
\* is about to negotiate the ring sizes.
InitVerb ==
    /\ \E ccap \in VerbCaps, rcap \in VerbCaps :
          CtlInit(PowerOnRegs(HwConfig(ccap, CodeOfCap(ccap), rcap,
                                       CodeOfCap(rcap), TRUE, 1, 1, 1), TRUE),
                  FALSE, "negotiate")
    /\ VerbInit
    /\ StreamInit
    /\ ApiInit

\* Each verb is waited for before the next is submitted, and the codec
\* answers within the wait.
NextVerb ==
    \/ Negotiate
    \/ \E a \in ShortArgs : submit_verb(a.cid, a.nid, a.cmd, a.data)
    \/ \E a \in LongArgs : submit_verb_long(a.cid, a.nid, a.cmd, a.data)
    \/ HwProcess
    \/ (~HwVerbsPending /\ WaitCorbPoll)
    \/ (~HwVerbsPending /\ WaitRirbPoll)

SpecVerb == InitVerb /\ [][NextVerb]_vars

(***************************************************************************)
(* wait_for_verb on its own, against write pointers that take any value    *)
(* at any time.                                                            *)
(***************************************************************************)
WpValues == {0, 1}

WaitIndices == {1, 2}

\* wait_for_verb(index) is entered; the pointers move before its first load.
InitWait ==
    /\ CtlInit(PowerOnRegs(HwConfig(4, 2, 4, 2, TRUE, 1, 1, 1), TRUE),
               FALSE, "wait_corb")
    /\ corb = <<>>
    /\ rirb = <<>>
    /\ corbrp = 0
    /\ index \in WaitIndices
    /\ res = [unwritten |-> TRUE]
    /\ sent = <<>>
    /\ answered = <<>>
    /\ loads = 0
    /\ corb_hit = FALSE
    /\ StreamInit
    /\ ApiInit

\* The hardware moves its pointers between two loads of the driver.
HwScramble ==
    /\ pc \in {"wait_corb", "wait_rirb"}
    /\ \E c \in WpValues, r \in WpValues :
          /\ regs' = [regs EXCEPT !.CORBWP.wp = c, !.RIRBWP.wp = r]
          /\ regs' # regs
    /\ UNCHANGED <<ctlRest, streamVars, apiVars, pc, status, poll_i, verbVars>>

WaitStep == WaitCorbPoll \/ WaitRirbPoll

NextWait ==
    \/ WaitCorbPoll
    \/ WaitRirbPoll
    \/ HwScramble

\* The loops have no blocking call: the driver keeps running.
SpecWait == InitWait /\ [][NextWait]_vars /\ WF_vars(WaitStep)


-----------------------------------------------------------------------------
(* Properties of the verb queue.                                           *)

\* The verb submitted last and the response the hardware gave last.
LastSent == sent[Len(sent)]

LastAnswered == answered[Len(answered)]

\* C1 (as stated): verbs are submitted one after another, each waited for
\* before the next, and the hardware has given one response per command, in
\* order; then every wait_for_verb returns SUCCESS, and the descriptor it
\* hands back is the response to that verb, which the hardware wrote at the
\* RIRB slot equal to the index the submit call returned.
C1_EveryVerbGetsItsResponse ==
    (pc = "verb_done" /\ Len(answered) = Len(sent))
        => /\ status = SUCCESS
           /\ LastAnswered.slot = index
           /\ LastSent.index = index
           /\ res = response(LastSent.verb)
           /\ res = ReadMem(rirb, index)

\* C2: wait_for_verb returns in every run, whatever the write pointers do;
\* it returns TIMEOUT only when the loop that gave up has made exactly
\* 5 * 2000 loads none of which read the index, never after fewer and never
\* after more; and it returns SUCCESS only if CORBWP and then RIRBWP were
\* read as the index, so an index the pointers never reach ends in TIMEOUT.
C2_TimeoutAfterExactlyTheCeiling ==
    /\ [](loads <= 5 * 2000)
    /\ []((pc = "verb_done" /\ status = TIMEOUT) => loads = 5 * 2000)
    /\ []((pc = "verb_done" /\ status = SUCCESS)
            => corb_hit /\ regs.RIRBWP.wp = index)
    /\ []((pc = "verb_done" /\ index \notin WpValues) => status = TIMEOUT)
    /\ <>(pc = "verb_done")

\* C2 witness: a wait for an index no pointer value equals has returned
\* TIMEOUT from its first loop after 5 * 2000 loads.
C2_Witness ==
    /\ pc = "verb_done"
    /\ index \notin WpValues
    /\ status = TIMEOUT
    /\ ~corb_hit
    /\ loads = 5 * 2000


-----------------------------------------------------------------------------
(* One stream: uhda.cpp, uhda_stream_setup and uhda_stream_play, lines     *)
(* 430-485.                                                                *)

\* Stream calls one run makes.
MaxStreamCalls == 4

\* uint32_t values, as two 16-bit halves, and their arithmetic.
U32(n) == [hi |-> (n \div 65536) % 65536, lo |-> n % 65536]

U32Add(a, n) ==
    [hi |-> (a.hi + (a.lo + n) \div 65536) % 65536, lo |-> (a.lo + n) % 65536]

U32Sub(a, n) ==
    [hi |-> (a.hi + (a.lo - n) \div 65536) % 65536, lo |-> (a.lo - n) % 65536]

U32Less(a, n) == a.hi = 0 /\ a.lo < n

\* The ring buffer sizes the callers ask for, and the bytes a ring buffer
\* holds when playback starts.
RingSizes == {4096, 16384, 32768, 65536}

Remaining == {0} \cup RingSizes

\* The content of a buffer page: nothing yet, the 0x1000 bytes of the ring
\* buffer from an offset on, or whatever lies behind the ring buffer.
NoBytes == [src |-> "none", off |-> 0]

RingBytes(off) == [src |-> "ring", off |-> off]

BeyondRing == {[src |-> "beyond", off |-> 0], [src |-> "beyond", off |-> 1]}

\* What memcpy(buffer_pages[i / 0x1000], ring_buffer + i, 0x1000) can read
\* (lines 464-467); a read past the end of the allocation is not defined.
PageSources(capacity, i) ==
    IF i + 4096 <= capacity THEN {RingBytes(i)} ELSE BeyondRing

\* uhda_stream_setup, lines 430-448. An input stream is refused; for an
\* output stream UhdaStream::setup gets the ring buffer and the four pages,
\* and the ring buffer then holds at most its size.
StreamSetup ==
    /\ stream_calls < MaxStreamCalls
    /\ ~stream.run
    /\ stream_calls' = stream_calls + 1
    /\ IF ~stream.output
         THEN /\ status' = UNSUPPORTED
              /\ stream_log' = [call |-> "setup"]
              /\ UNCHANGED stream
         ELSE \E n \in RingSizes, held_bytes \in Remaining :
                /\ held_bytes <= n
                /\ stream' = [stream EXCEPT
                                !.set_up = TRUE,
                                !.ring_capacity = n,
                                !.ring_buffer_size = U32(held_bytes),
                                !.ring_buffer_read_pos = U32(0),
                                !.current_pos = 0,
                                !.buffer_pages = [k \in 1 .. 4 |-> NoBytes]]
                /\ stream_log' = [call |-> "setup"]
                /\ status' = SUCCESS
    /\ UNCHANGED <<regs, ctlRest, verbVars, apiVars, pc, poll_i, irq_pc>>

\* initial_amount: line 461.
initial_amount == 4096 * 4

\* The guard of the copy: line 460.
PlayAlways(run) == TRUE

play_needed(run) == ~run

\* uhda_stream_play, lines 457-485. The log lists what the call did, in
\* program order.
StreamPlay(play) ==
    /\ stream.set_up
    /\ stream_calls < MaxStreamCalls
    /\ stream_calls' = stream_calls + 1
    /\ status' = SUCCESS
    /\ IF play /\ play_needed(stream.run)
         THEN \E pages \in [1 .. 4 -> {RingBytes(o) : o \in {0, 4096, 8192, 12288}}
                                        \cup BeyondRing] :
                /\ \A k \in 1 .. 4 :
                      pages[k] \in PageSources(stream.ring_capacity,
                                               (k - 1) * 4096)
                /\ stream' = [stream EXCEPT
                        !.buffer_pages = pages,
                        !.ring_buffer_size = U32Sub(@, initial_amount),
                        !.ring_buffer_read_pos = U32Add(@, initial_amount),
                        !.current_pos = initial_amount,
                        !.run = TRUE]
                /\ stream_log' = [call |-> "play", play |-> play,
                                  before |-> stream,
                                  did |-> <<"copy", "ring_buffer_size",
                                            "ring_buffer_read_pos",
                                            "current_pos", "store CTL0">>]
         ELSE IF ~play /\ stream.run
         THEN /\ stream' = [stream EXCEPT !.run = FALSE]
              /\ stream_log' = [call |-> "play", play |-> play,
                                before |-> stream, did |-> <<"store CTL0">>]
         ELSE /\ stream_log' = [call |-> "play", play |-> play,
                                before |-> stream, did |-> <<>>]
              /\ UNCHANGED stream
    /\ UNCHANGED <<regs, ctlRest, verbVars, apiVars, pc, poll_i, irq_pc>>

InitStream ==
    /\ CtlInit(PowerOnRegs(HwConfig(4, 2, 4, 2, TRUE, 1, 1, 1), TRUE),
               FALSE, "stream")
    /\ VerbInit
    /\ stream_log = [call |-> "none"]
    /\ stream_calls = 0
    /\ irq_pc = "idle"
    /\ ApiInit
    /\ \E out \in BOOLEAN :
          stream = [output |-> out, set_up |-> FALSE, run |-> FALSE,
                    ring_capacity |-> 0, ring_buffer_size |-> U32(0),
                    ring_buffer_read_pos |-> U32(0), current_pos |-> 0,
                    buffer_pages |-> <<>>]

NextStream ==
    \/ StreamSetup
    \/ \E play \in BOOLEAN : StreamPlay(play)

SpecStream == InitStream /\ [][NextStream]_vars

\* C10 (as stated): uhda_stream_play(stream, true) on a freshly set-up
\* stream whose RUN bit is clear leaves page k of the four buffer pages
\* holding the bytes k*4096 .. k*4096+4095 of the logical ring buffer,
\* ring_buffer_size smaller by exactly 16384, ring_buffer_read_pos larger by
\* 16384 and current_pos at 16384, and stores the RUN bit after all of that.
C10_PlayCopiesFourPages ==
    (/\ stream_log.call = "play"
     /\ stream_log.play
     /\ ~stream_log.before.run
     /\ stream_log.before.ring_buffer_read_pos = U32(0)
     /\ stream_log.before.current_pos = 0)
        => /\ \A k \in 0 .. 3 : stream.buffer_pages[k + 1] = RingBytes(k * 4096)
           /\ ~U32Less(stream_log.before.ring_buffer_size, 16384)
           /\ stream.ring_buffer_size
                = U32Sub(stream_log.before.ring_buffer_size, 16384)
           /\ stream.ring_buffer_read_pos = U32(16384)
           /\ stream.current_pos = 16384
           /\ stream.run
           /\ stream_log.did[Len(stream_log.did)] = "store CTL0"
           /\ Len(stream_log.did) = 5


\* C11: uhda_stream_play(stream, true) on a stream whose RUN bit is already
\* set copies nothing, leaves ring_buffer_size, ring_buffer_read_pos,
\* current_pos and the buffer pages as they were, makes no store to the
\* stream control register, and the RUN bit stays set.
C11_PlayWhileRunningIsNoOp ==
    (stream_log.call = "play" /\ stream_log.play /\ stream_log.before.run)
        => /\ stream_log.did = <<>>
           /\ stream = stream_log.before
           /\ stream.run
           /\ status = SUCCESS

\* C11 witness: play(true) has returned on a stream that was running since
\* an earlier play(true) moved its first 16 KiB.
C11_Witness ==
    /\ stream_log.call = "play" /\ stream_log.play /\ stream_log.before.run
    /\ stream.current_pos = 16384
    /\ stream.ring_buffer_size = U32(16384)
    /\ stream.ring_capacity = 32768


-----------------------------------------------------------------------------
(* The path functions: uhda.cpp, lines 123-185.                            *)

\* A controller that is of no concern to the call checked, at position p.
IdleCtl(p) ==
    CtlInit(PowerOnRegs(HwConfig(4, 2, 4, 2, TRUE, 1, 1, 1), TRUE), FALSE, p)

\* Widgets (compared as pointers, lines 140 and 145): the pin complexes and
\* the widgets behind them. A path lists its pin first (widgets[0]) and then
\* widgets behind it, none twice.
Pins == {1, 2}

Inner == {3, 4, 5}

MaxPathLen == 3

MaxPaths == 3

Paths ==
    {q \in UNION {[1 .. k -> Pins \cup Inner] : k \in 2 .. MaxPathLen} :
        /\ q[1] \in Pins
        /\ \A x \in 2 .. Len(q) : q[x] \in Inner
        /\ \A x \in DOMAIN q, y \in DOMAIN q : q[x] = q[y] => x = y}

\* The body of the innermost loop, lines 140-147, for widget wi of path a and
\* widget owi of path b (both counted from 1, so both at least 2): TRUE when
\* it returns false.
ConflictPinExcluded(a, wi, b, owi, same_stream) ==
    IF wi > 2 /\ owi > 2 /\ a[wi - 1] = b[owi - 1] THEN ~same_stream
    ELSE a[wi] = b[owi]

ConflictIgnoresWidget(a, wi, b, owi, same_stream) ==
    a[wi - 1] = b[owi - 1] /\ ~same_stream

conflict_at(a, wi, b, owi, same_stream) ==
    IF a[wi - 1] = b[owi - 1] THEN ~same_stream
    ELSE a[wi] = b[owi]

\* uhda_paths_usable_simultaneously, lines 123-153: every return inside the
\* four loops returns false, so the result is true exactly when no pass of
\* the innermost loop returns.
uhda_paths_usable_simultaneously(paths, same_stream) ==
    ~ \E i \in 1 .. Len(paths), j \in 1 .. Len(paths) :
          /\ j # i
          /\ \E wi \in 2 .. Len(paths[i]), owi \in 2 .. Len(paths[j]) :
                conflict_at(paths[i], wi, paths[j], owi, same_stream)

InitPaths ==
    /\ IdleCtl("api_call")
    /\ VerbInit
    /\ StreamInit
    /\ \E n \in 1 .. MaxPaths :
       \E paths \in [1 .. n -> Paths] :
       \E same_stream \in BOOLEAN :
          api_call = [fn |-> "usable", paths |-> paths,
                      same_stream |-> same_stream]
    /\ api_ret = [fn |-> "none"]

PathsCall ==
    /\ pc = "api_call"
    /\ api_call.fn = "usable"
    /\ api_ret' = [fn |-> "usable",
                   value |-> uhda_paths_usable_simultaneously(
                                 api_call.paths, api_call.same_stream)]
    /\ pc' = "api_done"
    /\ UNCHANGED <<regs, ctlRest, verbVars, streamVars, api_call, status,
                   poll_i>>

NextPaths == PathsCall

SpecPaths == InitPaths /\ [][NextPaths]_vars

\* Two paths share nothing but, at most, the pin both start at.
ShareAtMostPin(a, b) ==
    \A x \in DOMAIN a, y \in DOMAIN b : a[x] = b[y] => (x = 1 /\ y = 1)

\* C12 (as stated): for two paths that share at most their pin at index 0,
\* uhda_paths_usable_simultaneously returns true for both values of
\* same_stream.
C12_AsStated ==
    (/\ pc = "api_done" /\ api_call.fn = "usable"
     /\ Len(api_call.paths) = 2
     /\ ShareAtMostPin(api_call.paths[1], api_call.paths[2]))
        => api_ret.value

\* C12 (amended): for two paths of at least two widgets each that share at
\* most their pin at index 0, the function returns true when same_stream is
\* true, and when same_stream is false it returns true exactly when the two
\* pins differ: the pin is compared as the predecessor of the widget at
\* index 1.
C12_SharedPinNeedsSameStream ==
    (/\ pc = "api_done" /\ api_call.fn = "usable"
     /\ Len(api_call.paths) = 2
     /\ Len(api_call.paths[1]) >= 2 /\ Len(api_call.paths[2]) >= 2
     /\ ShareAtMostPin(api_call.paths[1], api_call.paths[2]))
        => (api_ret.value <=>
              (api_call.same_stream
                 \/ api_call.paths[1][1] # api_call.paths[2][1]))

\* C12 witness: two paths from the same pin to different converters were
\* found unusable together with same_stream false.
C12_Witness ==
    /\ pc = "api_done" /\ api_call.fn = "usable"
    /\ api_call.paths = <<(<<1, 3>>), (<<1, 4, 5>>)>>
    /\ ~api_call.same_stream
    /\ ~api_ret.value

\* C13: if two distinct paths of the list hold the same widget at an index
\* >= 1 and the widgets right before it in the two paths differ, the
\* function returns false for both values of same_stream, whatever else is
\* in the list and in whatever order.
C13_DifferentPredecessorConflicts ==
    (/\ pc = "api_done" /\ api_call.fn = "usable"
     /\ \E i \in DOMAIN api_call.paths, j \in DOMAIN api_call.paths :
          /\ i # j
          /\ \E x \in 2 .. Len(api_call.paths[i]),
                y \in 2 .. Len(api_call.paths[j]) :
                /\ api_call.paths[i][x] = api_call.paths[j][y]
                /\ api_call.paths[i][x - 1] # api_call.paths[j][y - 1])
        => ~api_ret.value

\* C13 witness: the third and the first path of a list reach the same
\* converter through different mixers, same_stream is true, and the
\* function has returned false.
C13_Witness ==
    /\ pc = "api_done" /\ api_call.fn = "usable"
    /\ api_call.paths = <<(<<1, 3, 5>>), (<<2, 3>>), (<<1, 4, 5>>)>>
    /\ api_call.same_stream
    /\ ~api_ret.value


-----------------------------------------------------------------------------
(* uhda_find_path: uhda.cpp, lines 155-185.                                *)

\* Paths the codec lists, and paths already in use, per call.
MaxOutputPaths == 3

MaxOthers == 2

\* The paths of a pin and one of two converters.
ShortPaths == {q \in Paths : Len(q) = 2 /\ q[2] \in {3, 4}}

ListsOf(S, lo, hi) == UNION {[1 .. k -> S] : k \in lo .. hi}

\* Lines 163-179 for one path of output_paths: it starts at the pin of dest
\* and is usable together with each of other_paths, checked pair by pair.
CandidateAnyPin(path, dest, other_paths, same_stream) ==
    \A i \in 1 .. Len(other_paths) :
        uhda_paths_usable_simultaneously(<<path, other_paths[i]>>, same_stream)

candidate_ok(path, dest, other_paths, same_stream) ==
    /\ path[1] = dest
    /\ \A i \in 1 .. Len(other_paths) :
          uhda_paths_usable_simultaneously(<<path, other_paths[i]>>,
                                           same_stream)

\* The loop over output_paths from position k on, lines 162-184: res is the
\* caller's *res, written only at line 180.
RECURSIVE find_from(_, _, _, _, _, _)
find_from(k, all_paths, dest, other_paths, same_stream, res0) ==
    IF k > Len(all_paths) THEN [status |-> UNSUPPORTED, res |-> res0]
    ELSE IF candidate_ok(all_paths[k], dest, other_paths, same_stream)
    THEN [status |-> SUCCESS, res |-> k]
    ELSE find_from(k + 1, all_paths, dest, other_paths, same_stream, res0)

uhda_find_path(all_paths, dest, other_paths, same_stream, res0) ==
    find_from(1, all_paths, dest, other_paths, same_stream, res0)

\* *res before the call: no path of the list.
NoPath == 0

InitFind ==
    /\ IdleCtl("api_call")
    /\ VerbInit
    /\ StreamInit
    /\ \E all_paths \in ListsOf(ShortPaths, 1, MaxOutputPaths),
          other_paths \in ListsOf(ShortPaths, 0, MaxOthers),
          dest \in Pins, same_stream \in BOOLEAN :
          api_call = [fn |-> "find", output_paths |-> all_paths,
                      dest |-> dest, other_paths |-> other_paths,
                      same_stream |-> same_stream]
    /\ api_ret = [fn |-> "none"]

FindCall ==
    /\ pc = "api_call"
    /\ api_call.fn = "find"
    /\ api_ret' = [fn |-> "find",
                   out |-> uhda_find_path(api_call.output_paths, api_call.dest,
                                          api_call.other_paths,
                                          api_call.same_stream, NoPath)]
    /\ pc' = "api_done"
    /\ UNCHANGED <<regs, ctlRest, verbVars, streamVars, api_call, status,
                   poll_i>>

NextFind == FindCall

SpecFind == InitFind /\ [][NextFind]_vars

\* The positions in output_paths of the paths that start at the pin of dest
\* and are usable together with every path of other_paths.
Usable(c) ==
    {k \in DOMAIN c.output_paths :
        /\ c.output_paths[k][1] = c.dest
        /\ \A o \in DOMAIN c.other_paths :
              uhda_paths_usable_simultaneously(
                  <<c.output_paths[k], c.other_paths[o]>>, c.same_stream)}

\* C14: uhda_find_path returns SUCCESS with the first path of output_paths
\* that starts at the destination's pin and is usable, pairwise, with every
\* path of other_paths; it returns UNSUPPORTED, *res not written, exactly
\* when there is no such path.
C14_FirstUsablePathFound ==
    (pc = "api_done" /\ api_call.fn = "find") =>
        /\ api_ret.out.status \in {SUCCESS, UNSUPPORTED}
        /\ (api_ret.out.status = UNSUPPORTED) <=> (Usable(api_call) = {})
        /\ api_ret.out.status = UNSUPPORTED => api_ret.out.res = NoPath
        /\ api_ret.out.status = SUCCESS =>
              /\ api_ret.out.res \in Usable(api_call)
              /\ \A k \in Usable(api_call) : api_ret.out.res <= k

\* C14 witness: the first path to the pin is refused because it shares its
\* converter with a path in use, the second path to a different pin is
\* passed over, and the third one is returned.
C14_Witness ==
    /\ pc = "api_done" /\ api_call.fn = "find"
    /\ api_call.output_paths = <<(<<1, 3>>), (<<2, 4>>), (<<1, 4>>)>>
    /\ api_call.other_paths = <<(<<2, 3>>)>>
    /\ api_call.dest = 1
    /\ api_ret.out = [status |-> SUCCESS, res |-> 3]


-----------------------------------------------------------------------------
(* uhda_path_setup and uhda_path_shutdown: uhda.cpp, lines 237-389.        *)
(* A widget is [nid, type, connections, out_amp_caps, pin_caps]; a path is *)
(* a sequence of widgets, pin first. The codec's methods send one verb     *)
(* each; their outcome is an input: fails is the set of ordinals of the    *)
(* calls that time out.                                                    *)

PIN_COMPLEX == "PIN_COMPLEX"

AUDIO_MIXER == "AUDIO_MIXER"

AUDIO_OUT == "AUDIO_OUT"

WidgetTypes == {PIN_COMPLEX, AUDIO_MIXER, AUDIO_OUT}

\* The function has not returned yet.
RUNNING == "running"

\* Bit n of a value.
Bit(v, n) == (v \div (2 ^ n)) % 2 = 1

\* One call of a codec method: it is logged, and status is its result.
codec_call(st, verb, nid, data, fails) ==
    IF st.ret # RUNNING THEN st
    ELSE [st EXCEPT !.log = Append(@, [verb |-> verb, nid |-> nid,
                                       data |-> data]),
                    !.status = IF Len(st.log) + 1 \in fails
                               THEN TIMEOUT ELSE SUCCESS]

\* if (status != UHDA_STATUS_SUCCESS) return status;
return_on_failure(st) ==
    IF st.ret = RUNNING /\ st.status # SUCCESS
    THEN [st EXCEPT !.ret = st.status] ELSE st

\* if (status == UHDA_STATUS_SUCCESS) return status;  (lines 328, 346, 376)
return_on_success(st) ==
    IF st.ret = RUNNING /\ st.status = SUCCESS
    THEN [st EXCEPT !.ret = st.status] ELSE st

\* The scan of the connection list, lines 267-285, from entry j on
\* (entries are numbered from 1 here).
RECURSIVE connection_scan(_, _, _, _)
connection_scan(connections, prev_nid, j, sel) ==
    IF j > Len(connections) THEN sel
    ELSE LET connection == connections[j] IN
         IF Bit(connection, 7)
         THEN LET start == connections[j - 1]
                  end == connection % 128
              IN IF prev_nid >= start /\ prev_nid <= end
                 THEN sel + (prev_nid - start)
                 ELSE connection_scan(connections, prev_nid, j + 1,
                                      sel + (end - start))
         ELSE IF prev_nid = connection THEN sel
              ELSE connection_scan(connections, prev_nid, j + 1, sel + 1)

selected_index(connections, prev_nid) ==
    connection_scan(connections, prev_nid, 1, 0)

\* 1 << 15 | 1 << 13 | 1 << 12 | step, for a step or the mute bit 1 << 7.
amp_data(step) == 32768 + 8192 + 4096 + step

\* The body of the loop of uhda_path_setup for widget i, lines 262-349.
setup_widget(st, path, i, strm, fails) ==
    LET widget == path[i]
        step == widget.out_amp_caps % 128
        s1 == IF i > 1 /\ Len(widget.connections) > 1
              THEN return_on_failure(codec_call(st, "set_selected_connection",
                       widget.nid,
                       <<selected_index(widget.connections, path[i - 1].nid)>>,
                       fails))
              ELSE st
        s2 == return_on_failure(codec_call(s1, "set_power_state", widget.nid,
                                           <<0>>, fails))
    IN CASE widget.type = PIN_COMPLEX ->
              LET a == IF Bit(widget.pin_caps, 16)
                       THEN return_on_failure(codec_call(s2, "set_eapd_enable",
                                widget.nid, <<2>>, fails))
                       ELSE s2
                  b == return_on_failure(codec_call(a, "set_amp_gain_mute",
                           widget.nid, <<amp_data(step)>>, fails))
              IN return_on_failure(codec_call(b, "set_pin_control", widget.nid,
                                              <<128 + 64>>, fails))
         [] widget.type = AUDIO_MIXER ->
              return_on_success(codec_call(s2, "set_amp_gain_mute", widget.nid,
                                           <<amp_data(step)>>, fails))
         [] widget.type = AUDIO_OUT ->
              LET a == return_on_failure(codec_call(s2, "set_converter_control",
                           widget.nid, <<strm.index + 1, 0>>, fails))
                  b == IF a.ret = RUNNING
                       THEN [a EXCEPT !.gain = step \div 2] ELSE a
              IN return_on_success(codec_call(b, "set_amp_gain_mute",
                     widget.nid, <<amp_data(step \div 2)>>, fails))
         [] OTHER -> s2

RECURSIVE setup_from(_, _, _, _, _)
setup_from(st, path, i, strm, fails) ==
    IF i > Len(path) \/ st.ret # RUNNING THEN st
    ELSE setup_from(setup_widget(st, path, i, strm, fails), path, i + 1,
                    strm, fails)

\* The state of a call before its first statement: nothing sent, the path's
\* gain as it was.
Entered(path_gain) ==
    [log |-> <<>>, status |-> SUCCESS, gain |-> path_gain, ret |-> RUNNING]

\* uhda_path_setup, lines 237-353. fmt_value is the value of the format made
\* from params at line 242 and chan its channel field.
uhda_path_setup(path, path_gain, fmt_value, chan, strm, fails) ==
    LET st == Entered(path_gain)
        output == path[Len(path)]
    IN IF ~strm.output THEN [st EXCEPT !.ret = UNSUPPORTED]
       ELSE IF output.type # AUDIO_OUT THEN [st EXCEPT !.ret = UNSUPPORTED]
       ELSE LET a == return_on_failure(codec_call(st, "set_converter_format",
                         output.nid, <<fmt_value>>, fails))
                b == return_on_failure(codec_call(a,
                         "set_converter_channel_count", output.nid,
                         <<chan>>, fails))
                c == setup_from(b, path, 1, strm, fails)
            IN IF c.ret = RUNNING THEN [c EXCEPT !.ret = SUCCESS] ELSE c

\* The body of the loop of uhda_path_shutdown for widget i, lines 358-385.
shutdown_widget(st, path, i, fails) ==
    LET widget == path[i] IN
    CASE widget.type = PIN_COMPLEX ->
           LET a == return_on_failure(codec_call(st, "set_amp_gain_mute",
                        widget.nid, <<amp_data(128)>>, fails))
           IN return_on_failure(codec_call(a, "set_pin_control", widget.nid,
                                           <<0>>, fails))
      [] widget.type = AUDIO_MIXER ->
           return_on_success(codec_call(st, "set_amp_gain_mute", widget.nid,
                                        <<amp_data(128)>>, fails))
      [] widget.type = AUDIO_OUT ->
           return_on_failure(codec_call(st, "set_converter_control",
                                        widget.nid, <<0, 0>>, fails))
      [] OTHER -> st

RECURSIVE shutdown_from(_, _, _, _)
shutdown_from(st, path, i, fails) ==
    IF i > Len(path) \/ st.ret # RUNNING THEN st
    ELSE shutdown_from(shutdown_widget(st, path, i, fails), path, i + 1, fails)

\* uhda_path_shutdown, lines 355-389.
uhda_path_shutdown(path, path_gain, fails) ==
    LET c == shutdown_from(Entered(path_gain), path, 1, fails)
    IN IF c.ret = RUNNING THEN [c EXCEPT !.ret = SUCCESS] ELSE c


\* Bounds of the paths set up and shut down.
MaxSetupLen == 3

MaxFailAt == 12

MaxConn == 3

\* Amplifier capabilities: steps 5 (with a bit above the step field), 64, 127.
AmpCaps == {128 + 5, 64, 127}

\* Pin capabilities without and with EAPD (bit 16).
PinCaps == {0, 65536}

\* A path of widgets of the given types with node ids 2, 3, ...: its second
\* widget can choose between two inputs, the later ones have one input.
TypedPath(types, caps, pin_caps) ==
    [i \in DOMAIN types |->
        [nid |-> i + 1, type |-> types[i],
         connections |-> IF i = 1 THEN <<>>
                         ELSE IF i = 2 THEN <<9, 2>> ELSE <<i>>,
         out_amp_caps |-> caps, pin_caps |-> pin_caps]]

\* Connection lists: explicit ids and range ends (bit 7 set), a range end
\* following the explicit entry that starts its range.
ConnEntries == {2, 3, 5, 128 + 4, 128 + 6}

RECURSIVE Expand(_, _)
Expand(connections, j) ==
    IF j > Len(connections) THEN <<>>
    ELSE IF Bit(connections[j], 7)
    THEN [k \in 1 .. ((connections[j] % 128) - connections[j - 1]) |->
             connections[j - 1] + k] \o Expand(connections, j + 1)
    ELSE <<connections[j]>> \o Expand(connections, j + 1)

ConnLists ==
    {c \in ListsOf(ConnEntries, 2, MaxConn) :
        /\ \A j \in DOMAIN c :
              Bit(c[j], 7) => /\ j > 1
                              /\ ~Bit(c[j - 1], 7)
                              /\ c[j - 1] < c[j] % 128
        /\ \A x \in DOMAIN Expand(c, 1), y \in DOMAIN Expand(c, 1) :
              Expand(c, 1)[x] = Expand(c, 1)[y] => x = y}

\* A pin feeding a converter that lists the pin among its connections.
ConnPath(pin_nid, connections) ==
    <<[nid |-> pin_nid, type |-> PIN_COMPLEX, connections |-> <<>>,
       out_amp_caps |-> 64, pin_caps |-> 0],
      [nid |-> 8, type |-> AUDIO_OUT, connections |-> connections,
       out_amp_caps |-> 64, pin_caps |-> 0]>>

\* The calls that time out: none, one or two of the first MaxFailAt.
FailSets == {f \in SUBSET (1 .. MaxFailAt) : Cardinality(f) <= 2}

SetupCall(path, strm, fails) ==
    [fn |-> "setup", path |-> path, gain |-> 100, fmt_value |-> 17,
     chan |-> 1, strm |-> strm, fails |-> fails]

InitSetup ==
    /\ IdleCtl("api_call")
    /\ VerbInit
    /\ StreamInit
    /\ \/ \E types \in ListsOf(WidgetTypes, 1, MaxSetupLen),
             caps \in AmpCaps, pin_caps \in PinCaps,
             output \in BOOLEAN, strm_index \in {0, 1}, fails \in FailSets :
             api_call = SetupCall(TypedPath(types, caps, pin_caps),
                                  [output |-> output, index |-> strm_index],
                                  fails)
       \/ \E c \in ConnLists :
             \E pin_nid \in {c[j] : j \in {j \in DOMAIN c : ~Bit(c[j], 7)}}
                            \cup {4, 6} :
                /\ \E x \in DOMAIN Expand(c, 1) : Expand(c, 1)[x] = pin_nid
                /\ api_call = SetupCall(ConnPath(pin_nid, c),
                                        [output |-> TRUE, index |-> 0], {})
    /\ api_ret = [fn |-> "none"]

PathSetupCall ==
    /\ pc = "api_call"
    /\ api_call.fn = "setup"
    /\ api_ret' = [fn |-> "setup",
                   out |-> uhda_path_setup(api_call.path, api_call.gain,
                                           api_call.fmt_value, api_call.chan,
                                           api_call.strm, api_call.fails)]
    /\ pc' = "api_done"
    /\ UNCHANGED <<regs, ctlRest, verbVars, streamVars, api_call, status,
                   poll_i>>

NextSetup == PathSetupCall

SpecSetup == InitSetup /\ [][NextSetup]_vars

InitShutdown ==
    /\ IdleCtl("api_call")
    /\ VerbInit
    /\ StreamInit
    /\ \E types \in ListsOf(WidgetTypes, 1, MaxSetupLen), fails \in FailSets :
          api_call = [fn |-> "shutdown", path |-> TypedPath(types, 64, 0),
                      gain |-> 100, fails |-> fails]
    /\ api_ret = [fn |-> "none"]

PathShutdownCall ==
    /\ pc = "api_call"
    /\ api_call.fn = "shutdown"
    /\ api_ret' = [fn |-> "shutdown",
                   out |-> uhda_path_shutdown(api_call.path, api_call.gain,
                                              api_call.fails)]
    /\ pc' = "api_done"
    /\ UNCHANGED <<regs, ctlRest, verbVars, streamVars, api_call, status,
                   poll_i>>

NextShutdown == PathShutdownCall

SpecShutdown == InitShutdown /\ [][NextShutdown]_vars

\* The call was sent during the finished function and did not fail.
Done(verb, nid, data) ==
    \E k \in DOMAIN api_ret.out.log :
        /\ api_ret.out.log[k] = [verb |-> verb, nid |-> nid, data |-> data]
        /\ k \notin api_call.fails

\* The type-specific setup of a widget of a path being set up.
TypeSetupDone(widget) ==
    LET step == widget.out_amp_caps % 128 IN
    CASE widget.type = PIN_COMPLEX ->
           /\ Bit(widget.pin_caps, 16) => Done("set_eapd_enable", widget.nid,
                                               <<2>>)
           /\ Done("set_amp_gain_mute", widget.nid, <<amp_data(step)>>)
           /\ Done("set_pin_control", widget.nid, <<192>>)
      [] widget.type = AUDIO_MIXER ->
           Done("set_amp_gain_mute", widget.nid, <<amp_data(step)>>)
      [] widget.type = AUDIO_OUT ->
           /\ Done("set_converter_control", widget.nid,
                   <<api_call.strm.index + 1, 0>>)
           /\ Done("set_amp_gain_mute", widget.nid,
                   <<amp_data(step \div 2)>>)
      [] OTHER -> TRUE

SetupReturned == pc = "api_done" /\ api_call.fn = "setup"

\* C15: when uhda_path_setup returns SUCCESS every widget of the path has
\* been powered on and given the setup of its type, the last widget, the
\* converter, is bound to channel stream index + 1 with its amplifier at
\* half of its maximum step, and the path's gain is that half.
C15_SuccessMeansWholePathSetUp ==
    (SetupReturned /\ api_ret.out.ret = SUCCESS) =>
        LET output == api_call.path[Len(api_call.path)]
            half == (output.out_amp_caps % 128) \div 2
        IN /\ \A i \in DOMAIN api_call.path :
                 /\ Done("set_power_state", api_call.path[i].nid, <<0>>)
                 /\ TypeSetupDone(api_call.path[i])
           /\ Done("set_converter_control", output.nid,
                   <<api_call.strm.index + 1, 0>>)
           /\ Done("set_amp_gain_mute", output.nid, <<amp_data(half)>>)
           /\ api_ret.out.gain = half

\* C16: uhda_path_setup returns the failure of a codec call at once: when a
\* call it sent failed, that call is the last one it sent and its status is
\* the result; it returns SUCCESS only with no failed call and with every
\* widget of the path reached.
C16_ReturnsEarlyOnlyOnFailure ==
    SetupReturned =>
        LET log == api_ret.out.log
            failed == {k \in DOMAIN log : k \in api_call.fails}
        IN /\ failed # {} => /\ api_ret.out.ret = TIMEOUT
                             /\ failed = {Len(log)}
           /\ api_ret.out.ret = SUCCESS =>
                 /\ failed = {}
                 /\ \A i \in DOMAIN api_call.path :
                       \E k \in DOMAIN log :
                           /\ log[k].verb = "set_power_state"
                           /\ log[k].nid = api_call.path[i].nid

\* The position, from 0, of an id in a connection list with its ranges
\* written out.
PositionIn(connections, nid) ==
    (CHOOSE x \in DOMAIN Expand(connections, 1) :
        Expand(connections, 1)[x] = nid) - 1

\* C20: for a widget with more than one connection-list entry the index
\* given to set_selected_connection is the position of the previous
\* widget's id in the list with every range written out, start to end.
C20_SelectorIsPositionInExpandedList ==
    SetupReturned =>
        \A i \in DOMAIN api_call.path, k \in DOMAIN api_ret.out.log :
            (/\ i > 1
             /\ api_ret.out.log[k].verb = "set_selected_connection"
             /\ api_ret.out.log[k].nid = api_call.path[i].nid)
            => api_ret.out.log[k].data =
                  <<PositionIn(api_call.path[i].connections,
                               api_call.path[i - 1].nid)>>

\* C17: when uhda_path_shutdown returns SUCCESS every pin and every mixer of
\* the path has been written the muted gain and the converter at its end
\* has been given stream channel 0.
C17_SuccessMeansWholePathShutDown ==
    (pc = "api_done" /\ api_call.fn = "shutdown"
        /\ api_ret.out.ret = SUCCESS) =>
        LET output == api_call.path[Len(api_call.path)] IN
        /\ \A i \in DOMAIN api_call.path :
              api_call.path[i].type \in {PIN_COMPLEX, AUDIO_MIXER} =>
                  Done("set_amp_gain_mute", api_call.path[i].nid,
                       <<amp_data(128)>>)
        /\ output.type = AUDIO_OUT =>
              Done("set_converter_control", output.nid, <<0, 0>>)


-----------------------------------------------------------------------------
(* uhda_path_set_volume: uhda.cpp, lines 391-416.                          *)

\* How far below 0 and above 100 the requested volumes go.
MaxVolumeOver == 5

VolumeInputs == (0 - MaxVolumeOver) .. (100 + MaxVolumeOver)

\* Lines 392-409: the step for a volume. one_percentage * volume is an int
\* and value a uint32_t, so a negative product wraps.
volume_step(max_value, volume) ==
    LET clamped == IF volume > 100 THEN 100 ELSE volume
        one_percentage == IF max_value \div 100 = 0 THEN 1
                          ELSE max_value \div 100
        value == U32(one_percentage * clamped)
    IN IF ~U32Less(value, max_value + 1) \/ clamped = 100
       THEN max_value ELSE value.lo

uhda_path_set_volume(path, path_gain, volume, fails) ==
    LET st == Entered(path_gain)
        output == path[Len(path)]
        value == volume_step(output.out_amp_caps % 128, volume)
    IN IF output.type # AUDIO_OUT THEN [st EXCEPT !.ret = UNSUPPORTED]
       ELSE LET a == codec_call([st EXCEPT !.gain = value],
                                "set_amp_gain_mute", output.nid,
                                <<amp_data(value)>>, fails)
            IN [a EXCEPT !.ret = a.status]

InitVolume ==
    /\ IdleCtl("api_call")
    /\ VerbInit
    /\ StreamInit
    /\ \E caps \in 0 .. 127, volume \in VolumeInputs,
          type \in {AUDIO_OUT, AUDIO_MIXER}, fails \in {{}, {1}} :
          api_call = [fn |-> "set_volume",
                      path |-> TypedPath(<<PIN_COMPLEX, type>>, caps, 0),
                      gain |-> 100, volume |-> volume, fails |-> fails]
    /\ api_ret = [fn |-> "none"]

PathSetVolumeCall ==
    /\ pc = "api_call"
    /\ api_call.fn = "set_volume"
    /\ api_ret' = [fn |-> "set_volume",
                   out |-> uhda_path_set_volume(api_call.path, api_call.gain,
                                                api_call.volume,
                                                api_call.fails)]
    /\ pc' = "api_done"
    /\ UNCHANGED <<regs, ctlRest, verbVars, streamVars, api_call, status,
                   poll_i>>

NextVolume == PathSetVolumeCall

SpecVolume == InitVolume /\ [][NextVolume]_vars

\* A volume brought into 0..100.
ClampedVolume(volume) ==
    IF volume < 0 THEN 0 ELSE IF volume > 100 THEN 100 ELSE volume

\* C18: for every maximum step m in 0..127 the step stored in the path's gain
\* and written to the amplifier is between 0 and m, is 0 for volume 0 and m
\* for volume 100, is the step of the volume clamped into 0..100, and no
\* lower volume gives a higher step.
C18_VolumeStepMonotonicAndClamped ==
    (pc = "api_done" /\ api_call.fn = "set_volume"
        /\ api_ret.out.ret # UNSUPPORTED) =>
        LET m == api_call.path[Len(api_call.path)].out_amp_caps % 128
            g == api_ret.out.gain
        IN /\ g \in 0 .. m
           /\ api_ret.out.log[1].data = <<amp_data(g)>>
           /\ api_call.volume = 0 => g = 0
           /\ api_call.volume = 100 => g = m
           /\ g = volume_step(m, ClampedVolume(api_call.volume))
           /\ \A lower \in VolumeInputs :
                 lower <= api_call.volume => volume_step(m, lower) <= g


-----------------------------------------------------------------------------
(* The verb indices and the negotiated rings.                              *)

\* C19: for every negotiated ring size the index submit_verb and
\* submit_verb_long compute, write the descriptor at, store in CORBWP and
\* return is below corb_size and follows the previous one modulo corb_size,
\* and wait_for_verb reads its response at a slot below rirb_size.
C19_IndexWithinNegotiatedRing ==
    Len(sent) > 0 =>
        /\ \A k \in DOMAIN sent :
              /\ sent[k].index < corb_size
              /\ k > 1 => sent[k].index = (sent[k - 1].index + 1) % corb_size
        /\ \A slot \in DOMAIN corb : slot < corb_size
        /\ regs.CORBWP.wp < corb_size
        /\ (pc = "verb_done" /\ status = SUCCESS) => index < rirb_size


-----------------------------------------------------------------------------
(* The remaining-size counter of a stream.                                 *)

\* a <= b for uint32_t values.
U32Leq(a, b) == a.hi < b.hi \/ (a.hi = b.hi /\ a.lo <= b.lo)

\* C24: ring_buffer_size never wraps below zero: play(true) takes 16384 only
\* from a ring_buffer_size of at least 16384, so after any play call
\* ring_buffer_size is at most what it was before the call, and
\* ring_buffer_read_pos is not behind the end of the ring buffer.
C24_RemainingSizeNeverWraps ==
    stream_log.call = "play" =>
        /\ "ring_buffer_size" \in Range(stream_log.did)
              => ~U32Less(stream_log.before.ring_buffer_size, initial_amount)
        /\ U32Leq(stream.ring_buffer_size, stream_log.before.ring_buffer_size)
        /\ U32Leq(stream.ring_buffer_read_pos, U32(stream.ring_capacity))


-----------------------------------------------------------------------------
(* The codec list across suspend and resume.                               *)

\* C23: after init() and any suspend() and resume() calls that all returned
\* SUCCESS the codec list holds at most one Codec per codec id: a repeated
\* resume() leaves no earlier Codec of a presence bit next to the new one.
C23_OneCodecPerId ==
    (pc = "active" /\ status = SUCCESS /\ last_op.status = SUCCESS) =>
        \A x \in DOMAIN codecs, y \in DOMAIN codecs :
            codecs[x] = codecs[y] => x = y


-----------------------------------------------------------------------------
(* The interrupt handler: controller.cpp, hda_irq, lines 82-103.           *)
(* INTSTS is the set of the positions of its set bits.                     *)

\* Streams of one direction a controller of this section has at most.
MaxIrqStreams == 2

\* The stream bits of INTSTS, intsts::SIS; bit 30 is the controller
\* interrupt, bit 31 the global one.
SisBits == 0 .. 29

IntstsBits == (0 .. 2 * MaxIrqStreams) \cup {30, 31}

\* The test of line 96: bit i belongs to an output stream.
IrqAnyStream(i, in_count) == TRUE

is_output_bit(i, in_count) == i >= in_count

\* The loop of lines 94-100 from bit i on: the calls it makes.
RECURSIVE irq_dispatch(_, _, _)
irq_dispatch(i, controller, streams) ==
    IF i >= controller.in_stream_count + controller.out_stream_count THEN <<>>
    ELSE IF i \in streams /\ is_output_bit(i, controller.in_stream_count)
    THEN <<[op |-> "output_irq", at |-> i - controller.in_stream_count]>>
             \o irq_dispatch(i + 1, controller, streams)
    ELSE irq_dispatch(i + 1, controller, streams)

\* hda_irq(arg) while INTSTS reads as intsts: what it does, in order, and
\* what it returns.
hda_irq(controller, intsts) ==
    IF intsts = {}
    THEN [claimed |-> FALSE, ops |-> <<[op |-> "load", at |-> "INTSTS"]>>]
    ELSE [claimed |-> TRUE,
          ops |-> <<[op |-> "load", at |-> "INTSTS"]>>
                     \o irq_dispatch(0, controller, intsts \cap SisBits)]

InitIrq ==
    /\ IdleCtl("api_call")
    /\ VerbInit
    /\ StreamInit
    /\ \E ins \in 0 .. MaxIrqStreams, outs \in 0 .. MaxIrqStreams,
          intsts \in SUBSET IntstsBits :
          api_call = [fn |-> "hda_irq",
                      arg |-> [in_stream_count |-> ins,
                               out_stream_count |-> outs],
                      intsts |-> intsts]
    /\ api_ret = [fn |-> "none"]

HdaIrq ==
    /\ pc = "api_call"
    /\ api_call.fn = "hda_irq"
    /\ api_ret' = [fn |-> "hda_irq",
                   out |-> hda_irq(api_call.arg, api_call.intsts)]
    /\ pc' = "api_done"
    /\ UNCHANGED <<regs, ctlRest, verbVars, streamVars, api_call, status,
                   poll_i>>

NextIrq == HdaIrq

SpecIrq == InitIrq /\ [][NextIrq]_vars

\* How often an operation occurs in a log.
Times(ops, o) == Cardinality({k \in DOMAIN ops : ops[k] = o})

\* C22: on an interrupt hda_irq reads INTSTS once, calls output_irq exactly
\* once for every output stream k whose bit in_stream_count + k is set and
\* for no other stream, does nothing else (no wait, no lock), and reports
\* the interrupt as not claimed exactly when INTSTS read as zero.
C22_IrqDispatchesSetOutputBits ==
    (pc = "api_done" /\ api_call.fn = "hda_irq") =>
        LET ops == api_ret.out.ops
            c == api_call.arg
        IN /\ ops[1] = [op |-> "load", at |-> "INTSTS"]
           /\ Times(ops, [op |-> "load", at |-> "INTSTS"]) = 1
           /\ \A k \in 0 .. c.out_stream_count - 1 :
                 Times(ops, [op |-> "output_irq", at |-> k]) =
                     IF c.in_stream_count + k \in api_call.intsts
                     THEN 1 ELSE 0
           /\ \A x \in 2 .. Len(ops) :
                 /\ ops[x].op = "output_irq"
                 /\ ops[x].at \in 0 .. c.out_stream_count - 1
           /\ api_ret.out.claimed <=> api_call.intsts # {}

\* C22 witness: with one input and two output streams, the bits of the
\* input stream and of output stream 1 and the global bit set, the handler
\* has called output_irq for output stream 1 only and claimed the interrupt.
C22_Witness ==
    /\ pc = "api_done" /\ api_call.fn = "hda_irq"
    /\ api_call.arg = [in_stream_count |-> 1, out_stream_count |-> 2]
    /\ api_call.intsts = {0, 2, 31}
    /\ api_ret.out = [claimed |-> TRUE,
                      ops |-> <<[op |-> "load", at |-> "INTSTS"],
                                [op |-> "output_irq", at |-> 1]>>]


-----------------------------------------------------------------------------
(* uhda_stream_play, uhda.cpp lines 457-485, statement by statement, next  *)
(* to the interrupt handler of the same stream. The stream has its lock    *)
(* (created at controller.cpp lines 184 and 191) and the buffer completion *)
(* bit of its status register.                                             *)

\* Interrupts one run handles.
MaxIrqs == 2

\* A stream after setup with a full ring buffer of cap bytes.
FreshStream(cap) ==
    [output |-> TRUE, set_up |-> TRUE, run |-> FALSE, ring_capacity |-> cap,
     ring_buffer_size |-> U32(cap), ring_buffer_read_pos |-> U32(0),
     current_pos |-> 0, buffer_pages |-> [k \in 1 .. 4 |-> NoBytes],
     lock |-> "none", bcis |-> FALSE]

\* The same stream after play(true) moved its first 16 KiB, running or
\* stopped again, with or without a completion interrupt pending.
StartedStream(cap, run, bcis) ==
    [FreshStream(cap) EXCEPT
        !.buffer_pages = [k \in 1 .. 4 |-> RingBytes((k - 1) * 4096)],
        !.ring_buffer_size = U32(cap - initial_amount),
        !.ring_buffer_read_pos = U32(initial_amount),
        !.current_pos = initial_amount,
        !.run = run, !.bcis = bcis]

InitRace ==
    /\ CtlInit(PowerOnRegs(HwConfig(4, 2, 4, 2, TRUE, 1, 1, 1), TRUE),
               FALSE, "play")
    /\ VerbInit
    /\ stream_log = [call |-> "none"]
    /\ stream_calls = 0
    /\ irq_pc = "idle"
    /\ \E cap \in {16384, 32768} :
          \/ stream = FreshStream(cap)
          \/ \E run \in BOOLEAN, bcis \in BOOLEAN :
                stream = StartedStream(cap, run, bcis)
    /\ \E play \in BOOLEAN : api_call = [fn |-> "play", play |-> play]
    /\ api_ret = [fn |-> "none"]

\* What a step of uhda_stream_play leaves alone besides the stream.
PlayRest == <<regs, ctlRest, verbVars, stream_log, stream_calls, irq_pc,
              api_call, poll_i>>

\* Line 458 and the tests of lines 459, 460 and 477.
PlayLoadCtl0 ==
    /\ pc = "play"
    /\ api_ret' = [fn |-> "play", ctl0 |-> [run |-> stream.run]]
    /\ pc' = IF api_call.play
             THEN IF play_needed(stream.run) THEN "play_copy"
                  ELSE "play_return"
             ELSE IF stream.run THEN "play_stop" ELSE "play_return"
    /\ UNCHANGED <<PlayRest, stream, status>>

\* Lines 463-468: the four pages are copied.
PlayCopy ==
    /\ pc = "play_copy"
    /\ \E pages \in [1 .. 4 -> {RingBytes(o) : o \in {0, 4096, 8192, 12288}}
                                  \cup BeyondRing] :
          /\ \A k \in 1 .. 4 :
                pages[k] \in PageSources(stream.ring_capacity, (k - 1) * 4096)
          /\ stream' = [stream EXCEPT !.buffer_pages = pages]
    /\ pc' = "play_size"
    /\ UNCHANGED <<PlayRest, api_ret, status>>

\* Line 469.
PlaySize ==
    /\ pc = "play_size"
    /\ stream' = [stream EXCEPT
                     !.ring_buffer_size = U32Sub(@, initial_amount)]
    /\ pc' = "play_read_pos"
    /\ UNCHANGED <<PlayRest, api_ret, status>>

\* Line 470.
PlayReadPos ==
    /\ pc = "play_read_pos"
    /\ stream' = [stream EXCEPT
                     !.ring_buffer_read_pos = U32Add(@, initial_amount)]
    /\ pc' = "play_current_pos"
    /\ UNCHANGED <<PlayRest, api_ret, status>>

\* Line 471.
PlayCurrentPos ==
    /\ pc = "play_current_pos"
    /\ stream' = [stream EXCEPT !.current_pos = initial_amount]
    /\ pc' = "play_run"
    /\ UNCHANGED <<PlayRest, api_ret, status>>

\* Lines 473-474: ctl0 with RUN set is stored.
PlayStoreRun ==
    /\ pc = "play_run"
    /\ stream' = [stream EXCEPT !.run = TRUE]
    /\ pc' = "play_return"
    /\ UNCHANGED <<PlayRest, api_ret, status>>

\* Lines 478-480: ctl0 with RUN cleared is stored.
PlayStoreStop ==
    /\ pc = "play_stop"
    /\ stream' = [stream EXCEPT !.run = FALSE]
    /\ pc' = "play_return"
    /\ UNCHANGED <<PlayRest, api_ret, status>>

\* Line 484.
PlayReturn ==
    /\ pc = "play_return"
    /\ status' = SUCCESS
    /\ pc' = "play_done"
    /\ UNCHANGED <<PlayRest, api_ret, stream>>

\* What a step of the hardware or of the interrupt handler leaves alone.
IrqRest == <<regs, ctlRest, verbVars, stream_log, apiVars, pc, status, poll_i>>

\* The hardware has played a buffer of the running stream.
HwBufferComplete ==
    /\ stream.run
    /\ ~stream.bcis
    /\ stream' = [stream EXCEPT !.bcis = TRUE]
    /\ UNCHANGED <<IrqRest, stream_calls, irq_pc>>

\* output_irq is entered for a pending completion and takes the stream lock.
OutputIrqLock ==
    /\ irq_pc = "idle"
    /\ stream.bcis
    /\ stream_calls < MaxIrqs
    /\ stream.lock = "none"
    /\ stream' = [stream EXCEPT !.lock = "irq"]
    /\ stream_calls' = stream_calls + 1
    /\ irq_pc' = "refill"
    /\ UNCHANGED IrqRest

\* output_irq refills the page that was played from the unread part of the
\* ring buffer, as far as there is one, and acknowledges the completion.
OutputIrqRefill ==
    /\ irq_pc = "refill"
    /\ IF U32Less(stream.ring_buffer_size, 4096)
       THEN stream' = [stream EXCEPT !.bcis = FALSE]
       ELSE stream' = [stream EXCEPT
               !.bcis = FALSE,
               !.buffer_pages[((stream.current_pos \div 4096) % 4) + 1] =
                   RingBytes(stream.ring_buffer_read_pos.lo),
               !.ring_buffer_size = U32Sub(@, 4096),
               !.ring_buffer_read_pos = U32Add(@, 4096),
               !.current_pos = @ + 4096]
    /\ irq_pc' = "unlock"
    /\ UNCHANGED <<IrqRest, stream_calls>>

\* output_irq releases the stream lock and returns.
OutputIrqUnlock ==
    /\ irq_pc = "unlock"
    /\ stream' = [stream EXCEPT !.lock = "none"]
    /\ irq_pc' = "idle"
    /\ UNCHANGED <<IrqRest, stream_calls>>

NextRace ==
    \/ PlayLoadCtl0
    \/ PlayCopy
    \/ PlaySize
    \/ PlayReadPos
    \/ PlayCurrentPos
    \/ PlayStoreRun
    \/ PlayStoreStop
    \/ PlayReturn
    \/ HwBufferComplete
    \/ OutputIrqLock
    \/ OutputIrqRefill
    \/ OutputIrqUnlock

SpecRace == InitRace /\ [][NextRace]_vars

\* uhda_stream_play has written part of the buffer state and not all of it.
PlayUpdating ==
    pc \in {"play_size", "play_read_pos", "play_current_pos", "play_run"}

\* output_irq is between taking and releasing the lock.
IrqUpdating == irq_pc \in {"refill", "unlock"}

\* C21: uhda_stream_play changes the buffer pages, ring_buffer_size,
\* ring_buffer_read_pos and current_pos only while it holds the lock of the
\* stream, and it is never in the middle of these changes while the
\* interrupt handler of the same stream is in the middle of its own.
C21_PlayUpdatesUnderStreamLock ==
    /\ PlayUpdating => stream.lock = "play"
    /\ ~(PlayUpdating /\ IrqUpdating)

=============================================================================
